---- MODULE Spec2Model ----
(***************************************************************************)
(* ncaptura: the capture/recording orchestration subsystem.                *)
(*                                                                         *)
(*   Spec          the in-process RecordingSession, driven by the handlers *)
(*                 of one window context (the interactive dialog with its  *)
(*                 recording HUD, or the main window of main.rs)           *)
(*   SpecDetached  the detached recording store, driven by concurrent      *)
(*                 command-line invocations of `record start` / `stop`     *)
(*   SpecForeign   the same store starting from a file the program did not *)
(*                 write, one invocation after the other                   *)
(*   SpecLaunch    the start handlers of a window beside a detached start  *)
(*   SpecScreenshot  take_screenshot and take_screenshot_with_clipboard    *)
(*   SpecWindows   list_windows over the answers niri can give             *)
(*   SpecTools     run_command, pick_region_geometry, the audio device     *)
(*                 resolver, focused_output_name and the recorder command  *)
(*                 over the outputs the external tools can give            *)
(*   SpecCli       one command-line process from its arguments to its exit *)
(*   SpecStored    the store starting from a readable record with any pid  *)
(*   SpecHud       the HUD of a detached recording beside a later          *)
(*                 invocation; SpecHudFair adds the main loop's fairness   *)
(*   SpecStopFair  Spec with stop_recording's steps and the exit of an     *)
(*                 interrupted recorder taken eventually                   *)
(*                                                                         *)
(* The recorder (wf-recorder) is an independent OS process: it runs, is    *)
(* suspended, exits and leaves the process table concurrently with the     *)
(* program.                                                                *)
(***************************************************************************)
EXTENDS Integers, Sequences, FiniteSets, TLC

(* ---------------------------- bounds ----------------------------------- *)

\* recorder processes spawned in one behaviour
MaxSpawn == 2
\* pause/resume clicks per session
MaxToggles == 2
\* distinct wall-clock seconds build_output_path can observe
MaxStamp == 1
\* concurrent command-line invocations
MaxInv == 2
\* kill calls made by detached stops in one behaviour
MaxDetSignals == 3

Pids == 1..MaxSpawn
Invs == 1..MaxInv

(* ---------------------------- values ----------------------------------- *)

Targets == {"Region", "Fullscreen"}

\* CaptureTarget::slug
slug(target) == IF target = "Region" THEN "region" ELSE "fullscreen"

NoPath == [dir |-> "", name |-> "", ts |-> 0]

\* build_output_path(kind_dir, prefix, extension) at wall-clock second ts
build_output_path(kind_dir, prefix, ts) ==
    [dir |-> kind_dir, name |-> prefix, ts |-> ts]

NoStatus == -1

\* a process that has left the process table
Gone == [st |-> "gone", int |-> FALSE, code |-> NoStatus]

NoProc == [st |-> "none", int |-> FALSE, code |-> NoStatus]

\* struct RecordingSession {child, output_path, paused}; status is the exit
\* status std::process::Child caches once the child has been reaped
NoSession ==
    [some |-> FALSE, child |-> 0, output_path |-> NoPath, paused |-> FALSE,
     status |-> NoStatus]

NoCall == [op |-> "none", session |-> NoSession, entryPaused |-> FALSE]

NoRet ==
    [op |-> "none", result |-> "none", error |-> "", path |-> NoPath,
     child |-> 0, val |-> FALSE,
     pid |-> [q |-> 0, r |-> 0]]

\* recording.json: absent, or the object {"pid": .., "output_path": ..}
AbsentFile == [kind |-> "absent", pid |-> [q |-> 0, r |-> 0], output_path |-> NoPath]

\* a command-line invocation that is not inside a recording operation
IdleInv ==
    [pc |-> "idle", pid |-> [q |-> 0, r |-> 0], output_path |-> NoPath,
     child |-> 0]

\* no answer from the compositor; no list_windows call made
NoNiri == [kind |-> "none", items |-> <<>>]

NoListing == [ok |-> FALSE, error |-> "", windows |-> <<>>]

\* the one-shot programs the helpers run
Programs == {"slurp", "pactl", "command"}

\* std::process::Output, with launched = FALSE when Command::output failed;
\* a text is the sequence of its bytes
NoOutput == [launched |-> FALSE, code |-> 0, stdout |-> <<>>, stderr |-> <<>>]

NoFocus ==
    [kind |-> "none",
     name |-> [t |-> "absent", n |-> 0, s |-> <<>>, b |-> FALSE],
     nested |-> [t |-> "absent", n |-> 0, s |-> <<>>, b |-> FALSE]]

NoDetail == [kind |-> "none", text |-> <<>>, code |-> 0]

NoCalled ==
    [fn |-> "none", ok |-> FALSE, error |-> "", detail |-> NoDetail,
     value |-> <<>>, target |-> "", with_audio |-> FALSE, args |-> <<>>]

\* main() before it has looked at its arguments; code -1: it has not exited
NoMain == [argv |-> <<>>, phase |-> "parse", code |-> -1]

\* the outcome of the pause button's last kill call
NoKill == [sig |-> "none", res |-> "none"]

\* no command-line recording HUD has been built
NoHud ==
    [pc |-> "none", closing |-> FALSE, recording_pid |-> [q |-> 0, r |-> 0],
     paused |-> FALSE, sources |-> {}, stop_calls |-> 0, removals |-> 0,
     last |-> NoKill]

VARIABLES
    procs,          \* the OS process table restricted to recorder processes
    sigLog,         \* the kill() calls made since the last recorder was
                    \* spawned, in order
    ctx,            \* which window context this behaviour is of
    window,         \* the context's main window exists
    hud,            \* the recording HUD exists (its handlers are connected)
    slot,           \* recording_session: Rc<RefCell<Option<RecordingSession>>>
    pc,             \* position of the UI thread inside stop_recording
    cur,            \* the session moved into the running stop_recording call
    stopped,        \* children whose session was consumed by stop_recording
    ret,            \* what the last handler / operation returned
    storeWritable,  \* the per-user state directory can be written
    stateFile,      \* contents of recording.json
    cli,            \* the command-line invocations
    shots,          \* the screenshot files on disk
    clipboard,      \* the file whose bytes the clipboard holds
    niri,           \* what `niri msg --json windows` answers
    listed,         \* what the last list_windows call returned
    tool,           \* what each external one-shot program does when run
    focus,          \* what `niri msg --json focused-output` answers
    called,         \* the last call of a helper function and its result
    main,           \* the process of main(): its arguments, how far it is,
                    \* its exit code
    cliHud          \* the recording HUD of a command-line `record start`

vars ==
    <<procs, sigLog, ctx, window, hud, slot, pc, cur, stopped, ret,
      storeWritable, stateFile, cli, shots, clipboard, niri, listed,
      tool, focus, called, main, cliHud>>

uiState == <<ctx, window, hud, slot, pc, cur, stopped>>
uiVars == <<uiState, ret>>
detVars == <<storeWritable, stateFile, cli>>
toolVars == <<tool, focus, called>>
capVars == <<shots, clipboard, niri, listed, toolVars, main, cliHud>>

\* no program run, no answer, no helper called
ToolIdle ==
    /\ tool = [p \in Programs |-> NoOutput]
    /\ focus = NoFocus
    /\ called = NoCalled
    /\ main = NoMain
    /\ cliHud = NoHud

\* nothing captured, nothing listed
CapIdle ==
    /\ shots = {}
    /\ clipboard = NoPath
    /\ niri = NoNiri
    /\ listed = NoListing
    /\ ToolIdle

(* ------------------------- the OS: processes --------------------------- *)

\* TLC's integers stop at 2^31 - 1, so an unsigned 32- or 64-bit value v is
\* kept as [q, r] with v = q * 2^31 + r and 0 <= r < 2^31
Wide(q, r) == [q |-> q, r |-> r]

\* `as u32` of a u64: the low 32 bits
AsU32(v) == Wide(v.q % 2, v.r)

\* `as i32` of a u32: values from 2^31 on come out negative
AsI32(v) == IF v.q = 1 THEN (v.r - 2147483647) - 1 ELSE v.r

\* Child::id(): the OS pid of child process p as a u32
child_id(p) == Wide(0, p)

\* Pid::from_raw(pid as i32)
PidFromRaw(pid) == AsI32(pid)

Exists(t) == t \in Pids /\ procs[t].st \in {"running", "suspended", "exited"}

\* what nix::sys::signal::kill can report for target t.  For a process id:
\* ESRCH when no such process is in the table, success or another errno
\* (EPERM) otherwise.  Target 0 is the caller's own process group, which the
\* caller can always signal; a negative target is every process (-1) or the
\* process group -t, of which the table knows nothing
KillOutcomes(t) ==
    IF Exists(t) THEN {"Ok", "EPERM"}
    ELSE IF t = 0 THEN {"Ok"}
    ELSE IF t < 0 THEN {"Ok", "EPERM", "ESRCH"}
    ELSE {"ESRCH"}

\* kill(t, sig) reported res and the signal ended the calling process:
\* SIGINT sent to the caller's own process group, for which the command-line
\* process installs no handler
KillsCaller(t, sig, res) == t = 0 /\ sig = "SIGINT" /\ res = "Ok"

\* the process table after kill(t, sig) reported res
DeliverIn(table, t, sig, res) ==
    IF res # "Ok" \/ ~Exists(t) THEN table
    ELSE LET p == table[t] IN
        CASE sig = "SIGSTOP" /\ p.st = "running" ->
                 [table EXCEPT ![t].st = "suspended"]
          [] sig = "SIGCONT" /\ p.st = "suspended" ->
                 [table EXCEPT ![t].st = "running"]
          [] sig = "SIGINT" /\ p.st \in {"running", "suspended"} ->
                 [table EXCEPT ![t].int = TRUE]
          [] OTHER -> table

Deliver(t, sig, res) == DeliverIn(procs, t, sig, res)

LogEntry(t, sig, res, by, entryPaused) ==
    [pid |-> t, sig |-> sig, res |-> res, by |-> by, paused |-> entryPaused]

\* the pid Command::spawn hands out next
FreshPids == {p \in Pids : procs[p].st = "none"}
FreshPid == CHOOSE p \in FreshPids : \A q \in FreshPids : p <= q

\* a running recorder exits: after an interrupt it finalizes its file, and it
\* can also end by itself (compositor gone, encoder error)
RecorderExit(p) ==
    /\ procs[p].st = "running"
    /\ \E code \in {0, 1} :
           procs' = [procs EXCEPT ![p].st = "exited", ![p].code = code]
    /\ UNCHANGED <<sigLog, uiVars, detVars, capVars>>

\* an exited recorder leaves the process table without the program waiting
\* for it: init reaps a recorder whose parent has exited, the kernel reaps
\* children of a process started with SIGCHLD ignored
ZombieReaped(p) ==
    /\ procs[p].st = "exited"
    /\ procs' = [procs EXCEPT ![p] = Gone]
    /\ UNCHANGED <<sigLog, uiVars, detVars, capVars>>

(* --------------------- capture/recording.rs: session ------------------- *)

\* a start that spawns the recorder before it asks for the region
start_spawns_before_pick(target, pathTs, picked, spawned) ==
    LET output_path ==
            build_output_path("recordings", slug(target), pathTs)
        spawnedProcs ==
            [procs EXCEPT ![FreshPid] =
                [st |-> "running", int |-> FALSE, code |-> NoStatus]]
    IN  IF pathTs = 0 THEN
            [ok |-> FALSE, error |-> "DirectoryCreateFailed",
             session |-> NoSession, procs |-> procs]
        ELSE IF ~spawned THEN
            [ok |-> FALSE, error |-> "RecorderLaunchFailed",
             session |-> NoSession, procs |-> procs]
        ELSE IF target = "Region" /\ ~picked THEN
            [ok |-> FALSE, error |-> "SelectionCancelled",
             session |-> NoSession, procs |-> spawnedProcs]
        ELSE
            [ok |-> TRUE, error |-> "",
             session |-> [some |-> TRUE, child |-> FreshPid,
                          output_path |-> output_path, paused |-> FALSE,
                          status |-> NoStatus],
             procs |-> spawnedProcs]

\* a start that hands back a session although the spawn failed
start_failed_spawn_keeps_session(target, pathTs, picked, spawned) ==
    LET output_path ==
            build_output_path("recordings", slug(target), pathTs)
    IN  IF pathTs = 0 THEN
            [ok |-> FALSE, error |-> "DirectoryCreateFailed",
             session |-> NoSession, procs |-> procs]
        ELSE IF target = "Region" /\ ~picked THEN
            [ok |-> FALSE, error |-> "SelectionCancelled",
             session |-> NoSession, procs |-> procs]
        ELSE
            [ok |-> spawned,
             error |-> IF spawned THEN "" ELSE "RecorderLaunchFailed",
             session |-> [some |-> TRUE, child |-> FreshPid,
                          output_path |-> output_path, paused |-> FALSE,
                          status |-> NoStatus],
             procs |-> IF spawned THEN
                           [procs EXCEPT ![FreshPid] =
                               [st |-> "running", int |-> FALSE,
                                code |-> NoStatus]]
                       ELSE procs]

\* start_recording(target, with_audio): pathTs is the second at which
\* build_output_path ran (0: the output directory could not be created),
\* picked is whether pick_region_geometry returned a geometry, spawned is
\* whether Command::spawn succeeded
start_recording(target, pathTs, picked, spawned) ==
    LET output_path ==
            build_output_path("recordings", slug(target), pathTs)
    IN  IF pathTs = 0 THEN
            [ok |-> FALSE, error |-> "DirectoryCreateFailed",
             session |-> NoSession, procs |-> procs]
        ELSE IF target = "Region" /\ ~picked THEN
            [ok |-> FALSE, error |-> "SelectionCancelled",
             session |-> NoSession, procs |-> procs]
        ELSE IF ~spawned THEN
            [ok |-> FALSE, error |-> "RecorderLaunchFailed",
             session |-> NoSession, procs |-> procs]
        ELSE
            [ok |-> TRUE, error |-> "",
             session |-> [some |-> TRUE, child |-> FreshPid,
                          output_path |-> output_path, paused |-> FALSE,
                          status |-> NoStatus],
             procs |-> [procs EXCEPT ![FreshPid] =
                           [st |-> "running", int |-> FALSE,
                            code |-> NoStatus]]]

\* toggle_recording_pause that bails on process-not-found as well
toggle_esrch_fatal(session, res) ==
    LET sig == IF session.paused THEN "SIGCONT" ELSE "SIGSTOP" IN
    IF res # "Ok" THEN
        [ok |-> FALSE, error |-> "SignalDeliveryFailed", val |-> FALSE,
         sig |-> sig, session |-> session]
    ELSE
        [ok |-> TRUE, error |-> "", val |-> ~session.paused, sig |-> sig,
         session |-> [session EXCEPT !.paused = ~session.paused]]

\* toggle_recording_pause that updates the flag before it looks at the error
toggle_flips_first(session, res) ==
    LET sig == IF session.paused THEN "SIGCONT" ELSE "SIGSTOP" IN
    IF res \notin {"Ok", "ESRCH"} THEN
        [ok |-> FALSE, error |-> "SignalDeliveryFailed", val |-> FALSE,
         sig |-> sig, session |-> [session EXCEPT !.paused = ~session.paused]]
    ELSE
        [ok |-> TRUE, error |-> "", val |-> ~session.paused, sig |-> sig,
         session |-> [session EXCEPT !.paused = ~session.paused]]

\* toggle_recording_pause(&mut session) when kill reports res
toggle_recording_pause(session, res) ==
    LET sig == IF session.paused THEN "SIGCONT" ELSE "SIGSTOP" IN
    IF res \notin {"Ok", "ESRCH"} THEN
        [ok |-> FALSE, error |-> "SignalDeliveryFailed", val |-> FALSE,
         sig |-> sig, session |-> session]
    ELSE
        [ok |-> TRUE, error |-> "", val |-> ~session.paused, sig |-> sig,
         session |-> [session EXCEPT !.paused = ~session.paused]]

\* a kill site that bails on every error
kill_ok_only(res) == res = "Ok"

\* `if let Err(err) = kill(..) && err != Errno::ESRCH { bail!(..) }`: the
\* call goes on after success and after process-not-found
kill_tolerated(res) == res = "Ok" \/ res = "ESRCH"

\* stop_recording with the test of the paused flag inverted
stop_resumes_unpaused(session) == ~session.paused

\* stop_recording that interrupts without resuming
stop_never_resumes(session) == FALSE

\* stop_recording, lines 79-87: a paused session is resumed first
stop_needs_resume(session) == session.paused

\* a try_wait that reports an exited child as still running
try_wait_ignores_exit(session, p) ==
    IF p.st \in {"running", "suspended", "exited"} THEN
        [ok |-> TRUE, exited |-> FALSE, status |-> NoStatus, reap |-> FALSE]
    ELSE
        [ok |-> FALSE, exited |-> FALSE, status |-> NoStatus, reap |-> FALSE]

\* stop_recording, lines 89-93: session.child.try_wait() on process record p.
\* A cached status is returned as is; an exited child is reaped; a child that
\* is no longer in the table cannot be waited for (ECHILD)
try_wait(session, p) ==
    IF session.status # NoStatus THEN
        [ok |-> TRUE, exited |-> TRUE, status |-> session.status, reap |-> FALSE]
    ELSE IF p.st = "exited" THEN
        [ok |-> TRUE, exited |-> TRUE, status |-> p.code, reap |-> TRUE]
    ELSE IF p.st \in {"running", "suspended"} THEN
        [ok |-> TRUE, exited |-> FALSE, status |-> NoStatus, reap |-> FALSE]
    ELSE
        [ok |-> FALSE, exited |-> FALSE, status |-> NoStatus, reap |-> FALSE]

\* session.child.wait() can return: it blocks while the child is alive
wait_returns(session, p) ==
    session.status # NoStatus \/ p.st \in {"exited", "gone", "none"}

\* stop_recording, lines 103-108: what the call returns for exit status
\* `status` (NoStatus: wait itself failed)
stop_result(session, status) ==
    IF status = NoStatus THEN
        [result |-> "Err", error |-> "WaitFailed", path |-> NoPath]
    ELSE IF status # 0 THEN
        [result |-> "Err", error |-> "RecorderExitedAbnormally",
         path |-> NoPath]
    ELSE
        [result |-> "Ok", error |-> "", path |-> session.output_path]

(* ------------------------- capture/state.rs ---------------------------- *)

\* a write that leaves the output path out of the record
write_drops_output_path(pid, output_path) ==
    IF storeWritable THEN
        [ok |-> TRUE,
         file |-> [kind |-> "record", pid |-> pid, output_path |-> NoPath]]
    ELSE
        [ok |-> FALSE, file |-> stateFile]

\* write_cli_recording_state(pid, output_path): the file after the call
write_cli_recording_state(pid, output_path) ==
    IF storeWritable THEN
        [ok |-> TRUE,
         file |-> [kind |-> "record", pid |-> pid, output_path |-> output_path]]
    ELSE
        [ok |-> FALSE, file |-> stateFile]

\* a read that takes whatever file exists for a record
read_accepts_malformed(file) ==
    IF file.kind = "absent" THEN
        [ok |-> FALSE, error |-> "StateMissing", pid |-> Wide(0, 0),
         output_path |-> NoPath]
    ELSE
        [ok |-> TRUE, error |-> "", pid |-> AsU32(file.pid),
         output_path |-> file.output_path]

\* read_cli_recording_state() on file contents `file`
read_cli_recording_state(file) ==
    IF file.kind = "absent" THEN
        [ok |-> FALSE, error |-> "StateMissing", pid |-> Wide(0, 0),
         output_path |-> NoPath]
    ELSE IF file.kind = "record" THEN
        [ok |-> TRUE, error |-> "", pid |-> AsU32(file.pid),
         output_path |-> file.output_path]
    ELSE
        [ok |-> FALSE, error |-> "StateCorrupt", pid |-> Wide(0, 0),
         output_path |-> NoPath]

\* clear_cli_recording_state(): the file after the call; a failure of
\* remove_file is ignored
clear_cli_recording_state(file) ==
    IF storeWritable THEN AbsentFile ELSE file

(* ------------------- capture/recording.rs: detached -------------------- *)

\* current_cli_recording_state() on file contents `file`
current_cli_recording_state(file) ==
    LET r == read_cli_recording_state(file) IN
    [ok |-> r.ok, error |-> r.error,
     state |-> [pid |-> r.pid, output_path |-> r.output_path]]

\* a start that takes every file that exists for a recording in progress
state_file_exists(r) == r.error # "StateMissing"

\* a start that does not look for an existing record
state_never_ok(r) == FALSE

\* start_recording_detached, line 115: `read_cli_recording_state().is_ok()`
state_is_ok(r) == r.ok

\* stop_recording_detached with the two signals exchanged
stop_detached_signal_swapped(step) ==
    IF step = "stop_resume" THEN "SIGINT" ELSE "SIGCONT"

\* stop_recording_detached, lines 158-168: the signal each kill sends
stop_detached_signal(step) ==
    IF step = "stop_resume" THEN "SIGCONT" ELSE "SIGINT"

\* invocation i returns from operation op and exits
DetReturn(i, op, result, error, path, child) ==
    /\ cli' = [cli EXCEPT ![i] = IdleInv]
    /\ ret' = [op |-> op, result |-> result, error |-> error, path |-> path,
               child |-> child, val |-> FALSE,
               pid |-> [q |-> 0, r |-> 0]]

\* invocation i goes on inside its operation
DetGoto(i, inv) ==
    /\ cli' = [cli EXCEPT ![i] = inv]
    /\ UNCHANGED ret

\* start_recording_detached, lines 115-117
DetStartCheck(i) ==
    /\ cli[i].pc = "idle"
    /\ IF state_is_ok(read_cli_recording_state(stateFile)) THEN
           DetReturn(i, "start", "Err", "AlreadyRecording", NoPath, 0)
       ELSE
           DetGoto(i, [IdleInv EXCEPT !.pc = "start_spawn"])
    /\ UNCHANGED <<procs, sigLog, uiState, storeWritable, stateFile, capVars>>

\* a spawn step that looks at the record again and waits while one exists
DetStartSpawnRechecks(i) ==
    /\ cli[i].pc = "start_spawn"
    /\ ~read_cli_recording_state(stateFile).ok
    /\ \E target \in Targets, pathTs \in 0..MaxStamp, picked \in BOOLEAN,
          spawned \in (IF FreshPids # {} THEN BOOLEAN ELSE {FALSE}) :
           LET r == start_recording(target, pathTs, picked, spawned) IN
           /\ procs' = r.procs
           /\ sigLog' = IF r.ok THEN <<>> ELSE sigLog
           /\ IF r.ok THEN
                  DetGoto(i, [IdleInv EXCEPT !.pc = "start_persist",
                                             !.child = r.session.child,
                                             !.output_path = r.session.output_path])
              ELSE
                  DetReturn(i, "start", "Err", r.error, NoPath, 0)
    /\ UNCHANGED <<uiState, storeWritable, stateFile, capVars>>

\* start_recording_detached, lines 119-147: the recorder is spawned as by
\* start_recording; no process can be spawned once the table is full
DetStartSpawn(i) ==
    /\ cli[i].pc = "start_spawn"
    /\ \E target \in Targets, pathTs \in 0..MaxStamp, picked \in BOOLEAN,
          spawned \in (IF FreshPids # {} THEN BOOLEAN ELSE {FALSE}) :
           LET r == start_recording(target, pathTs, picked, spawned) IN
           /\ procs' = r.procs
           /\ sigLog' = IF r.ok THEN <<>> ELSE sigLog
           /\ IF r.ok THEN
                  DetGoto(i, [IdleInv EXCEPT !.pc = "start_persist",
                                             !.child = r.session.child,
                                             !.output_path = r.session.output_path])
              ELSE
                  DetReturn(i, "start", "Err", r.error, NoPath, 0)
    /\ UNCHANGED <<uiState, storeWritable, stateFile, capVars>>

\* start_recording_detached, lines 149-151
DetStartPersist(i) ==
    /\ cli[i].pc = "start_persist"
    /\ LET pid == child_id(cli[i].child)
           w == write_cli_recording_state(pid, cli[i].output_path)
       IN  /\ stateFile' = w.file
           /\ IF w.ok THEN
                  DetReturn(i, "start", "Ok", "", cli[i].output_path, cli[i].child)
              ELSE
                  DetReturn(i, "start", "Err", "StateWriteFailed", NoPath,
                            cli[i].child)
    /\ UNCHANGED <<procs, sigLog, uiState, storeWritable, capVars>>

StopsInFlight ==
    Cardinality({j \in Invs : cli[j].pc \in {"stop_resume", "stop_interrupt"}})

\* stop_recording_detached, line 155
DetStopRead(i) ==
    /\ cli[i].pc = "idle"
    /\ LET r == read_cli_recording_state(stateFile) IN
       IF r.ok THEN
           /\ Len(sigLog) + 2 * StopsInFlight + 2 <= MaxDetSignals
           /\ DetGoto(i, [IdleInv EXCEPT !.pc = "stop_resume", !.pid = r.pid,
                                         !.output_path = r.output_path])
       ELSE
           DetReturn(i, "stop", "Err", r.error, NoPath, 0)
    /\ UNCHANGED <<procs, sigLog, uiState, storeWritable, stateFile, capVars>>

\* stop_recording_detached, lines 156-168: one of the two kill calls
DetStopSignal(i) ==
    /\ cli[i].pc \in {"stop_resume", "stop_interrupt"}
    /\ LET process_id == PidFromRaw(cli[i].pid)
           sig == stop_detached_signal(cli[i].pc)
       IN  \E res \in KillOutcomes(process_id) :
               /\ procs' = Deliver(process_id, sig, res)
               /\ sigLog' = Append(sigLog,
                      LogEntry(process_id, sig, res, "stop_recording_detached",
                               FALSE))
               /\ IF KillsCaller(process_id, sig, res) THEN
                      DetReturn(i, "stop", "Killed", "", NoPath, 0)
                  ELSE IF ~kill_tolerated(res) THEN
                      DetReturn(i, "stop", "Err", "SignalDeliveryFailed",
                                NoPath, 0)
                  ELSE
                      DetGoto(i, [cli[i] EXCEPT !.pc =
                                 IF cli[i].pc = "stop_resume"
                                 THEN "stop_interrupt" ELSE "stop_clear"])
    /\ UNCHANGED <<uiState, storeWritable, stateFile, capVars>>

\* stop_recording_detached, lines 170-171
DetStopClear(i) ==
    /\ cli[i].pc = "stop_clear"
    /\ stateFile' = clear_cli_recording_state(stateFile)
    /\ DetReturn(i, "stop", "Ok", "", cli[i].output_path, 0)
    /\ UNCHANGED <<procs, sigLog, uiState, storeWritable, capVars>>

(* ------------------ the window context: handlers ----------------------- *)

UiIdle == pc = "idle"

\* a handler that does not look at the slot before it starts a recording
session_never_some(s) == FALSE

\* `recording_session.borrow().is_some()` / `state.session.is_some()`
session_is_some(s) == s.some

\* a take that empties the slot of a paused session only
take_only_when_paused(s) == IF s.paused THEN NoSession ELSE s

\* a handler that borrows the session and leaves it in the slot
take_leaves_session(s) == s

\* `recording_session.borrow_mut().take()` leaves None in the slot
take(s) == NoSession

\* the handler that called stop_recording goes on after it returned: the HUD
\* stop button and the HUD close request destroy the HUD, a window close
\* request lets the window close
AfterStop(op) ==
    /\ hud' = IF op \in {"hud_stop", "hud_close"} THEN FALSE ELSE hud
    /\ window' = IF op \in {"dialog_close", "main_close"} THEN FALSE ELSE window

\* stop_recording(session) returns to handler op
StopReturn(op, session, r) ==
    /\ pc' = "idle"
    /\ cur' = NoCall
    /\ stopped' = stopped \cup {session.child}
    /\ ret' = [op |-> op, result |-> r.result, error |-> r.error,
               path |-> r.path, child |-> session.child, val |-> FALSE,
               pid |-> [q |-> 0, r |-> 0]]
    /\ AfterStop(op)

\* a handler takes the session out of the slot and calls stop_recording,
\* which runs up to its try_wait (lines 79-87)
BeginStop(op) ==
    /\ slot' = take(slot)
    /\ LET pid == PidFromRaw(child_id(slot.child)) IN
       IF stop_needs_resume(slot) THEN
           \E res \in KillOutcomes(pid) :
               /\ procs' = Deliver(pid, "SIGCONT", res)
               /\ sigLog' = Append(sigLog,
                      LogEntry(pid, "SIGCONT", res, "stop_recording", slot.paused))
               /\ IF ~kill_tolerated(res) THEN
                      StopReturn(op, slot,
                          [result |-> "Err", error |-> "SignalDeliveryFailed",
                           path |-> NoPath])
                  ELSE
                      /\ pc' = "stop_try_wait"
                      /\ cur' = [op |-> op,
                                 session |-> [slot EXCEPT !.paused = FALSE],
                                 entryPaused |-> slot.paused]
                      /\ UNCHANGED <<stopped, ret, hud, window>>
       ELSE
           /\ pc' = "stop_try_wait"
           /\ cur' = [op |-> op, session |-> slot, entryPaused |-> slot.paused]
           /\ UNCHANGED <<procs, sigLog, stopped, ret, hud, window>>

\* stop_recording, lines 89-93
StopTryWait ==
    /\ pc = "stop_try_wait"
    /\ LET s == cur.session
           w == try_wait(s, procs[s.child])
       IN  /\ procs' = IF w.reap
                       THEN [procs EXCEPT ![s.child] = Gone]
                       ELSE procs
           /\ IF ~w.ok THEN
                  /\ StopReturn(cur.op, s,
                         [result |-> "Err", error |-> "StatusReadFailed",
                          path |-> NoPath])
              ELSE
                  /\ pc' = IF w.exited THEN "stop_wait" ELSE "stop_interrupt"
                  /\ cur' = [cur EXCEPT !.session.status = w.status]
                  /\ UNCHANGED <<stopped, ret, hud, window>>
    /\ UNCHANGED <<sigLog, ctx, slot, detVars, capVars>>

\* stop_recording, lines 95-100
StopInterrupt ==
    /\ pc = "stop_interrupt"
    /\ LET s == cur.session
           pid == PidFromRaw(child_id(s.child))
       IN  \E res \in KillOutcomes(pid) :
               /\ procs' = Deliver(pid, "SIGINT", res)
               /\ sigLog' = Append(sigLog,
                      LogEntry(pid, "SIGINT", res, "stop_recording",
                               cur.entryPaused))
               /\ IF ~kill_tolerated(res) THEN
                      StopReturn(cur.op, s,
                          [result |-> "Err", error |-> "SignalDeliveryFailed",
                           path |-> NoPath])
                  ELSE
                      /\ pc' = "stop_wait"
                      /\ UNCHANGED <<cur, stopped, ret, hud, window>>
    /\ UNCHANGED <<ctx, slot, detVars, capVars>>

\* stop_recording, lines 103-108
StopWait ==
    /\ pc = "stop_wait"
    /\ LET s == cur.session
           p == procs[s.child]
       IN  /\ wait_returns(s, p)
           /\ LET status == IF s.status # NoStatus THEN s.status
                            ELSE IF p.st = "exited" THEN p.code
                            ELSE NoStatus
              IN  /\ procs' = IF s.status = NoStatus /\ p.st = "exited"
                              THEN [procs EXCEPT ![s.child] = Gone]
                              ELSE procs
                  /\ StopReturn(cur.op, s, stop_result(s, status))
    /\ UNCHANGED <<sigLog, ctx, slot, detVars, capVars>>

Handled(op, result, error) ==
    [op |-> op, result |-> result, error |-> error, path |-> NoPath,
     child |-> 0, val |-> FALSE,
     pid |-> [q |-> 0, r |-> 0]]

\* a click handler that starts a recording: op names the handler
StartClicked(op) ==
    /\ UiIdle
    /\ window
    /\ IF session_is_some(slot) THEN
           /\ ret' = Handled(op, "ignored", "")
           /\ UNCHANGED <<procs, sigLog, slot, hud>>
       ELSE
           /\ FreshPids # {}
           /\ \E target \in Targets, pathTs \in 0..MaxStamp,
                 picked \in BOOLEAN, spawned \in BOOLEAN :
                  LET r == start_recording(target, pathTs, picked, spawned) IN
                  /\ procs' = r.procs
                  /\ sigLog' = IF r.ok THEN <<>> ELSE sigLog
                  /\ slot' = IF r.ok THEN r.session ELSE slot
                  /\ hud' = IF r.ok /\ ctx = "dialog" THEN TRUE ELSE hud
                  /\ ret' = [op |-> op,
                             result |-> IF r.ok THEN "Ok" ELSE "Err",
                             error |-> r.error, path |-> r.session.output_path,
                             child |-> r.session.child, val |-> FALSE,
                             pid |-> [q |-> 0, r |-> 0]]
    /\ UNCHANGED <<ctx, window, pc, cur, stopped, detVars, capVars>>

\* ui/interactive_dialog.rs: take_screenshot_button clicked in record mode
TakeButtonClicked ==
    /\ ctx = "dialog"
    /\ StartClicked("take_button")

\* main.rs: recording_region_btn / recording_full_btn clicked
MainStartClicked ==
    /\ ctx = "main"
    /\ StartClicked("main_start")

TogglesOf(child) ==
    Cardinality({i \in 1..Len(sigLog) :
        sigLog[i].pid = child /\ sigLog[i].by = "toggle_recording_pause"})

\* ui/recording_hud.rs: pause_button clicked
HudPauseClicked ==
    /\ UiIdle
    /\ hud
    /\ IF ~session_is_some(slot) THEN
           /\ ret' = Handled("hud_pause", "ignored", "")
           /\ UNCHANGED <<procs, sigLog, slot>>
       ELSE
           /\ TogglesOf(slot.child) < MaxToggles
           /\ LET pid == PidFromRaw(child_id(slot.child)) IN
              \E res \in KillOutcomes(pid) :
                  LET r == toggle_recording_pause(slot, res) IN
                  /\ procs' = Deliver(pid, r.sig, res)
                  /\ sigLog' = Append(sigLog,
                         LogEntry(pid, r.sig, res, "toggle_recording_pause",
                                  slot.paused))
                  /\ slot' = r.session
                  /\ ret' = [op |-> "hud_pause",
                             result |-> IF r.ok THEN "Ok" ELSE "Err",
                             error |-> r.error, path |-> NoPath,
                             child |-> slot.child, val |-> r.val,
                             pid |-> [q |-> 0, r |-> 0]]
    /\ UNCHANGED <<ctx, window, hud, pc, cur, stopped, detVars, capVars>>

\* a handler that stops the recording when there is one; without a session
\* it only runs what follows the stop
StopHandler(op) ==
    /\ UiIdle
    /\ IF session_is_some(slot) THEN
           BeginStop(op)
       ELSE
           /\ ret' = Handled(op, "ignored", "")
           /\ AfterStop(op)
           /\ UNCHANGED <<procs, sigLog, slot, pc, cur, stopped>>
    /\ UNCHANGED <<ctx, detVars, capVars>>

\* ui/recording_hud.rs: stop_button clicked
HudStopClicked == hud /\ StopHandler("hud_stop")

\* ui/recording_hud.rs: hud close request
HudCloseRequest == hud /\ StopHandler("hud_close")

\* ui/interactive_dialog.rs: window close request
DialogCloseRequest == ctx = "dialog" /\ window /\ StopHandler("dialog_close")

\* main.rs: stop_recording_btn clicked
MainStopClicked == ctx = "main" /\ window /\ StopHandler("main_stop")

\* main.rs: window close request
MainCloseRequest == ctx = "main" /\ window /\ StopHandler("main_close")

(* --------------------------- specification ----------------------------- *)

Init ==
    /\ procs = [p \in Pids |-> NoProc]
    /\ sigLog = <<>>
    /\ ctx \in {"dialog", "main"}
    /\ window = TRUE
    /\ hud = FALSE
    /\ slot = NoSession
    /\ pc = "idle"
    /\ cur = NoCall
    /\ stopped = {}
    /\ ret = NoRet
    /\ storeWritable = TRUE
    /\ stateFile = AbsentFile
    /\ cli = [i \in Invs |-> IdleInv]
    /\ CapIdle

Next ==
    \/ TakeButtonClicked
    \/ MainStartClicked
    \/ HudPauseClicked
    \/ HudStopClicked
    \/ HudCloseRequest
    \/ DialogCloseRequest
    \/ MainStopClicked
    \/ MainCloseRequest
    \/ StopTryWait
    \/ StopInterrupt
    \/ StopWait
    \/ \E p \in Pids : RecorderExit(p)
    \/ \E p \in Pids : ZombieReaped(p)

Spec == Init /\ [][Next]_vars

InitDetached ==
    /\ procs = [p \in Pids |-> NoProc]
    /\ sigLog = <<>>
    /\ ctx = "dialog"
    /\ window = TRUE
    /\ hud = FALSE
    /\ slot = NoSession
    /\ pc = "idle"
    /\ cur = NoCall
    /\ stopped = {}
    /\ ret = NoRet
    /\ storeWritable \in BOOLEAN
    /\ stateFile = AbsentFile
    /\ cli = [i \in Invs |-> IdleInv]
    /\ CapIdle

NextDetached ==
    \/ \E i \in Invs : DetStartCheck(i)
    \/ \E i \in Invs : DetStartSpawn(i)
    \/ \E i \in Invs : DetStartPersist(i)
    \/ \E i \in Invs : DetStopRead(i)
    \/ \E i \in Invs : DetStopSignal(i)
    \/ \E i \in Invs : DetStopClear(i)
    \/ \E p \in Pids : RecorderExit(p)
    \/ \E p \in Pids : ZombieReaped(p)

SpecDetached == InitDetached /\ [][NextDetached]_vars

(* ------------------------ properties: session -------------------------- *)

Last(q) == q[Len(q)]

Appended == Len(sigLog') = Len(sigLog) + 1

StartOps == {"take_button", "main_start"}
StopOps == {"hud_stop", "hud_close", "dialog_close", "main_stop", "main_close"}

\* C4: stop_recording on a session whose recorder exits with a non-zero status
\* reports RecorderExitedAbnormally and still returns the session's output
\* path.  (The code returns the error alone.)
C4_AbnormalExitReturnsPath ==
    [][(pc = "stop_wait" /\ pc' = "idle"
        /\ ret'.error = "RecorderExitedAbnormally")
       => ret'.path = cur.session.output_path]_vars

\* where the session whose child is p stands in its life cycle
Phase(p) ==
    IF p \in stopped THEN "Stopped"
    ELSE IF cur.session.some /\ cur.session.child = p THEN "Stopping"
    ELSE IF slot.some /\ slot.child = p THEN
        IF slot.paused THEN "Paused" ELSE "Recording"
    ELSE IF procs[p].st = "none" THEN "Idle"
    ELSE "Dropped"

LifecycleSteps ==
    {<<"Idle", "Recording">>, <<"Recording", "Paused">>,
     <<"Paused", "Recording">>, <<"Recording", "Stopping">>,
     <<"Paused", "Stopping">>, <<"Recording", "Stopped">>,
     <<"Paused", "Stopped">>, <<"Stopping", "Stopped">>}

\* C5: every RecordingSession follows Idle -> Recording -> (Paused <->
\* Recording)* -> Stopped.  The pause signal is sent only from Recording and
\* the resume signal of a toggle only from Paused, stop is taken from both,
\* and Stopped is terminal: once stop_recording has returned the session is in
\* no slot, no call acts on it and no signal is sent to its child.
C5_SessionLifecycle ==
    [][/\ \A p \in Pids :
            /\ Phase(p)' # Phase(p) => <<Phase(p), Phase(p)'>> \in LifecycleSteps
            /\ p \in stopped =>
                   /\ p \in stopped'
                   /\ ~(slot'.some /\ slot'.child = p)
                   /\ ~(cur'.session.some /\ cur'.session.child = p)
       /\ Appended =>
            LET e == Last(sigLog') IN
            /\ e.pid \in Pids
            /\ Phase(e.pid) \in {"Recording", "Paused", "Stopping"}
            /\ e.by = "toggle_recording_pause" =>
                   /\ e.sig = "SIGSTOP" <=> Phase(e.pid) = "Recording"
                   /\ e.sig = "SIGCONT" <=> Phase(e.pid) = "Paused"
            /\ e.sig = "SIGINT" => e.by = "stop_recording"]_vars

\* a session was paused, resumed and then stopped successfully
C5_Witness ==
    /\ ret.op \in StopOps /\ ret.result = "Ok" /\ ret.child \in stopped
    /\ \E i, j, k \in 1..Len(sigLog) :
           /\ i < j /\ j < k
           /\ sigLog[i].sig = "SIGSTOP" /\ sigLog[i].res = "Ok"
           /\ sigLog[j].sig = "SIGCONT" /\ sigLog[j].by = "toggle_recording_pause"
           /\ sigLog[k].sig = "SIGINT" /\ sigLog[k].pid = ret.child

\* C6: stop_recording on a paused session sends SIGCONT before SIGINT: every
\* interrupt sent by a stop that found the session paused is preceded by that
\* stop's resume signal to the same child, and a process-not-found answer to
\* the resume does not end the call with SignalDeliveryFailed.
C6_ResumeBeforeInterrupt ==
    /\ \A i \in 1..Len(sigLog) :
           (sigLog[i].by = "stop_recording" /\ sigLog[i].sig = "SIGINT"
            /\ sigLog[i].paused)
           => \E j \in 1..(i - 1) :
                  /\ sigLog[j].by = "stop_recording"
                  /\ sigLog[j].sig = "SIGCONT"
                  /\ sigLog[j].pid = sigLog[i].pid
                  /\ kill_tolerated(sigLog[j].res)
    /\ (sigLog # <<>> /\ Last(sigLog).by = "stop_recording"
        /\ Last(sigLog).sig = "SIGCONT" /\ Last(sigLog).res = "ESRCH")
       => ~(pc = "idle" /\ ret.op \in StopOps
            /\ ret.child = Last(sigLog).pid
            /\ ret.error = "SignalDeliveryFailed")

\* a paused session was stopped: resume, then interrupt
C6_Witness ==
    \E i \in 2..Len(sigLog) :
        /\ sigLog[i].by = "stop_recording" /\ sigLog[i].sig = "SIGINT"
        /\ sigLog[i].paused
        /\ sigLog[i - 1].by = "stop_recording" /\ sigLog[i - 1].sig = "SIGCONT"

\* C8: within one window context at most one RecordingSession exists at any
\* time, and a start request issued while a session is in the slot spawns no
\* recorder and leaves that session unchanged.
C8_SingleSession ==
    /\ [](~(slot.some /\ cur.session.some))
    /\ [][(slot.some /\ ret' # ret /\ ret'.op \in StartOps)
          => (procs' = procs /\ slot' = slot /\ ret'.result = "ignored")]_vars

\* a start request was made while a session existed
C8_Witness ==
    slot.some /\ ret.op \in StartOps /\ ret.result = "ignored"

ToleratedToggles(child) ==
    {i \in 1..Len(sigLog) :
        /\ sigLog[i].pid = child
        /\ sigLog[i].by = "toggle_recording_pause"
        /\ sigLog[i].res \in {"Ok", "ESRCH"}}

\* C9: pause followed by resume returns the session to Recording, and both
\* calls succeed when the child has already exited: the paused flag is set
\* exactly after an odd number of toggles that were delivered or answered
\* with process-not-found, and each such toggle returned success with the new
\* value of the flag.
C9_PauseResumeRoundTrip ==
    slot.some =>
        /\ slot.paused = (Cardinality(ToleratedToggles(slot.child)) % 2 = 1)
        /\ (ret.op = "hud_pause" /\ ret.child = slot.child
            /\ Last(sigLog).res \in {"Ok", "ESRCH"})
           => (ret.result = "Ok" /\ ret.val = slot.paused)

\* pause and resume were both answered with process-not-found
C9_Witness ==
    /\ slot.some /\ ~slot.paused
    /\ ret.op = "hud_pause" /\ ret.result = "Ok"
    /\ Len(sigLog) = 2
    /\ \A i \in 1..2 :
           /\ sigLog[i].by = "toggle_recording_pause"
           /\ sigLog[i].res = "ESRCH"
    /\ sigLog[1].sig = "SIGSTOP" /\ sigLog[2].sig = "SIGCONT"

\* C10: when the signal of a pause or resume fails with an error other than
\* process-not-found, the call fails with SignalDeliveryFailed and the session
\* keeps its paused flag.
C10_FailedToggleKeepsState ==
    [][(Appended /\ Last(sigLog').by = "toggle_recording_pause"
        /\ Last(sigLog').res \notin {"Ok", "ESRCH"})
       => /\ ret'.op = "hud_pause"
          /\ ret'.result = "Err"
          /\ ret'.error = "SignalDeliveryFailed"
          /\ slot' = slot]_vars

\* a resume failed with another error and the session is still paused
C10_Witness ==
    /\ slot.some /\ slot.paused
    /\ ret.op = "hud_pause" /\ ret.error = "SignalDeliveryFailed"
    /\ sigLog # <<>> /\ Last(sigLog).sig = "SIGCONT"
    /\ Last(sigLog).res = "EPERM"

(* ------------------------ properties: detached ------------------------- *)

\* invocation i enters start_recording_detached in this step
StartInvoked(i) ==
    /\ cli[i].pc = "idle"
    /\ \/ cli'[i].pc = "start_spawn"
       \/ cli'[i].pc = "idle" /\ ret' # ret
             /\ ret'.op = "start" /\ ret'.error = "AlreadyRecording"

\* invocation i returns from stop_recording_detached in this step
StopReturns(i) ==
    /\ cli[i].pc \in {"stop_resume", "stop_interrupt", "stop_clear"}
    /\ cli'[i].pc = "idle"

\* invocation i makes one of the kill calls of stop_recording_detached
StopSignals(i) ==
    /\ cli[i].pc \in {"stop_resume", "stop_interrupt"}
    /\ cli'[i] # cli[i]

\* C1: start_recording_detached invoked while a readable record exists fails
\* with AlreadyRecording, spawns no recorder and leaves the record (pid and
\* output path) as it was.
C1_StartWhileRecorded ==
    [][\A i \in Invs :
          (StartInvoked(i) /\ read_cli_recording_state(stateFile).ok)
          => /\ cli'[i].pc = "idle"
             /\ ret'.op = "start" /\ ret'.result = "Err"
             /\ ret'.error = "AlreadyRecording"
             /\ procs' = procs
             /\ stateFile' = stateFile]_vars

\* a start was refused while a recorder was recorded and running
C1_Witness ==
    /\ ret.op = "start" /\ ret.error = "AlreadyRecording"
    /\ stateFile.kind = "record"
    /\ \E p \in Pids : stateFile.pid = child_id(p) /\ procs[p].st = "running"

\* C2: stop_recording_detached clears the record unconditionally after
\* signaling: also when a signal fails with an error other than
\* process-not-found, the record is absent once stop returns.  (The code
\* returns from the failed kill before it reaches the clear.)
C2_StopAlwaysClears ==
    [][\A i \in Invs :
          (StopReturns(i) /\ ret'.error = "SignalDeliveryFailed")
          => stateFile'.kind = "absent"]_vars

C7_StopDetachedOrder ==
    [][\A i \in Invs :
          /\ (cli[i].pc = "idle" /\ cli'[i].pc = "stop_resume")
             => /\ stateFile.kind = "record"
                /\ cli'[i].pid = stateFile.pid
                /\ cli'[i].output_path = stateFile.output_path
          /\ StopSignals(i)
             => /\ Appended
                /\ Last(sigLog').by = "stop_recording_detached"
                /\ Wide(0, Last(sigLog').pid) = cli[i].pid
                /\ Last(sigLog').sig = (IF cli[i].pc = "stop_resume"
                                        THEN "SIGCONT" ELSE "SIGINT")
          /\ (cli'[i].pc = "stop_interrupt" /\ cli'[i] # cli[i])
             => cli[i].pc = "stop_resume"
          /\ (cli'[i].pc = "stop_clear" /\ cli'[i] # cli[i])
             => cli[i].pc = "stop_interrupt"
          /\ (StopReturns(i) /\ ret'.result = "Ok")
             => /\ cli[i].pc = "stop_clear"
                /\ ret'.op = "stop"
                /\ ret'.path = cli[i].output_path]_vars

\* a stop delivered resume and interrupt to the recorded recorder and
\* returned the recorded path
C7_Witness ==
    /\ ret.op = "stop" /\ ret.result = "Ok" /\ ret.path # NoPath
    /\ Len(sigLog) = 2
    /\ sigLog[1].sig = "SIGCONT" /\ sigLog[1].res = "Ok"
    /\ sigLog[2].sig = "SIGINT" /\ sigLog[2].res = "Ok"
    /\ sigLog[1].pid = sigLog[2].pid
    /\ procs[sigLog[2].pid].int

(* ------------------- properties: session, continued -------------------- *)

\* C11: stop_recording sends the interrupt signal only if the child is still
\* running when checked: the check itself sends nothing, a child found
\* exited takes the call directly to the final wait, and every SIGINT of a
\* stop follows a check that found the child alive.
C11_InterruptOnlyIfRunning ==
    [][/\ (pc = "stop_try_wait" /\ pc' # pc)
          => LET st == procs[cur.session.child].st IN
             /\ sigLog' = sigLog
             /\ st = "exited" => pc' = "stop_wait"
             /\ pc' = "stop_interrupt" => st \in {"running", "suspended"}
       /\ pc' = "stop_interrupt" => pc \in {"stop_try_wait", "stop_interrupt"}
       /\ (Appended /\ Last(sigLog').by = "stop_recording"
           /\ Last(sigLog').sig = "SIGINT")
          => pc = "stop_interrupt"]_vars

\* a stop found its recorder exited with status 0 and returned the path
\* without having sent an interrupt
C11_Witness ==
    /\ ret.op \in StopOps /\ ret.result = "Ok" /\ ret.child \in stopped
    /\ \A i \in 1..Len(sigLog) : sigLog[i].sig # "SIGINT"

\* a state query that removes a file it cannot read as a record
DetCurrentStateClears(i) ==
    /\ cli[i].pc = "idle"
    /\ LET s == current_cli_recording_state(stateFile) IN
       /\ ret' = [op |-> "state", result |-> IF s.ok THEN "Ok" ELSE "Err",
                  error |-> s.error, path |-> s.state.output_path,
                  child |-> 0, val |-> FALSE, pid |-> s.state.pid]
       /\ stateFile' = IF s.ok THEN stateFile ELSE AbsentFile
    /\ UNCHANGED <<procs, sigLog, uiState, storeWritable, cli, capVars>>

\* current_cli_recording_state, lines 174-177, called by invocation i
DetCurrentState(i) ==
    /\ cli[i].pc = "idle"
    /\ LET s == current_cli_recording_state(stateFile) IN
       ret' = [op |-> "state", result |-> IF s.ok THEN "Ok" ELSE "Err",
               error |-> s.error, path |-> s.state.output_path,
               child |-> 0, val |-> FALSE, pid |-> s.state.pid]
    /\ UNCHANGED <<procs, sigLog, uiState, detVars, capVars>>

(* ------------- the store with contents the program did not write ------- *)

\* recording.json as another program, an interrupted write or an editor can
\* leave it: not JSON at all, an object without a u64 "pid", an object with a
\* pid and without a string "output_path"
MalformedFiles ==
    {[kind |-> "garbage", pid |-> Wide(0, 0), output_path |-> NoPath],
     [kind |-> "no_pid", pid |-> Wide(0, 0),
      output_path |-> build_output_path("recordings", "region", 1)],
     [kind |-> "no_output_path", pid |-> Wide(0, 1), output_path |-> NoPath]}

InitForeign ==
    /\ procs = [p \in Pids |-> NoProc]
    /\ sigLog = <<>>
    /\ ctx = "dialog"
    /\ window = TRUE
    /\ hud = FALSE
    /\ slot = NoSession
    /\ pc = "idle"
    /\ cur = NoCall
    /\ stopped = {}
    /\ ret = NoRet
    /\ storeWritable = TRUE
    /\ stateFile \in {AbsentFile} \cup MalformedFiles
    /\ cli = [i \in Invs |-> IdleInv]
    /\ CapIdle

\* one command-line invocation after the other
NextForeign ==
    \/ DetStartCheck(1)
    \/ DetStartSpawn(1)
    \/ DetStartPersist(1)
    \/ DetStopRead(1)
    \/ DetStopSignal(1)
    \/ DetStopClear(1)
    \/ DetCurrentState(1)
    \/ \E p \in Pids : RecorderExit(p)
    \/ \E p \in Pids : ZombieReaped(p)

SpecForeign == InitForeign /\ [][NextForeign]_vars

\* invocation i enters stop_recording_detached in this step
StopInvoked(i) ==
    /\ cli[i].pc = "idle"
    /\ \/ cli'[i].pc = "stop_resume"
       \/ cli'[i].pc = "idle" /\ ret' # ret /\ ret'.op = "stop"

\* C12: stop_recording_detached on an absent record fails with StateMissing
\* and on a malformed record with StateCorrupt; in both cases no signal is
\* sent to any process and the stored file is left as it was.
C12_StopWithoutRecord ==
    [][\A i \in Invs :
          (StopInvoked(i) /\ stateFile.kind # "record")
          => /\ cli'[i].pc = "idle"
             /\ ret'.op = "stop" /\ ret'.result = "Err"
             /\ ret'.error = (IF stateFile.kind = "absent"
                              THEN "StateMissing" ELSE "StateCorrupt")
             /\ sigLog' = sigLog
             /\ procs' = procs
             /\ stateFile' = stateFile]_vars

\* a stop has failed on a malformed file, which is still in place
C12_Witness ==
    /\ ret.op = "stop" /\ ret.error = "StateCorrupt"
    /\ stateFile \in MalformedFiles
    /\ cli[1].pc = "idle"


\* invocation i returns Ok from start_recording_detached in this step
StartReturnsOk(i) ==
    /\ cli[i].pc = "start_persist" /\ cli'[i].pc = "idle"
    /\ ret'.op = "start" /\ ret'.result = "Ok"

\* C13: when start_recording_detached returns Ok, the persisted record holds
\* exactly the pid of the recorder this invocation spawned and the output
\* path it returns, and current_cli_recording_state on that record returns
\* the same {pid, output_path}.
C13_StartPersistsPidAndPath ==
    [][\A i \in Invs :
          StartReturnsOk(i)
          => LET s == current_cli_recording_state(stateFile') IN
             /\ procs[cli[i].child].st # "none"
             /\ stateFile' = [kind |-> "record", pid |-> child_id(cli[i].child),
                              output_path |-> ret'.path]
             /\ ret'.path = cli[i].output_path /\ ret'.path # NoPath
             /\ s.ok
             /\ s.state = [pid |-> child_id(cli[i].child),
                           output_path |-> ret'.path]]_vars

\* the only recorder ever spawned is the one the record and the returned
\* value name: the start found no record
C13_Witness ==
    /\ ret.op = "start" /\ ret.result = "Ok"
    /\ Cardinality({p \in Pids : procs[p] # NoProc}) = 1
    /\ procs[ret.child] # NoProc
    /\ current_cli_recording_state(stateFile).state =
           [pid |-> child_id(ret.child), output_path |-> ret.path]


\* C14: the existence check and the spawn of start_recording_detached are
\* separate steps with nothing between them that excludes other invocations:
\* an invocation that has passed the check takes its spawn step whatever the
\* record holds by then, also when another invocation has written one.
C14_SpawnAfterCheckUnguarded ==
    \A i \in Invs : cli[i].pc = "start_spawn" => ENABLED DetStartSpawn(i)

\* two invocations have returned from start, their two recorders are running
\* and were never interrupted, and the record names one of them
C14_Witness ==
    /\ \A i \in Invs : cli[i].pc = "idle"
    /\ ret.op = "start" /\ ret.result = "Ok"
    /\ \E p, q \in Pids :
          /\ p # q
          /\ procs[p].st = "running" /\ ~procs[p].int
          /\ procs[q].st = "running" /\ ~procs[q].int
          /\ stateFile = [kind |-> "record", pid |-> child_id(p),
                          output_path |-> ret.path]


(* --------- the window and a command-line invocation, starts only ------- *)

InitLaunch ==
    /\ procs = [p \in Pids |-> NoProc]
    /\ sigLog = <<>>
    /\ ctx \in {"dialog", "main"}
    /\ window = TRUE
    /\ hud = FALSE
    /\ slot = NoSession
    /\ pc = "idle"
    /\ cur = NoCall
    /\ stopped = {}
    /\ ret = NoRet
    /\ storeWritable \in BOOLEAN
    /\ stateFile = AbsentFile
    /\ cli = [i \in Invs |-> IdleInv]
    /\ CapIdle

NextLaunch ==
    \/ TakeButtonClicked
    \/ MainStartClicked
    \/ DetStartCheck(1)
    \/ DetStartSpawn(1)
    \/ DetStartPersist(1)
    \/ \E p \in Pids : RecorderExit(p)
    \/ \E p \in Pids : ZombieReaped(p)

SpecLaunch == InitLaunch /\ [][NextLaunch]_vars

\* C15: when the spawn fails, start_recording returns RecorderLaunchFailed
\* with no session and no process; the start handler of the window then
\* leaves the session slot empty; a spawn step of start_recording_detached
\* that fails returns an error and writes no record.
C15_FailedSpawnCreatesNothing ==
    [][/\ \A target \in Targets, pathTs \in 1..MaxStamp, picked \in BOOLEAN :
             (target = "Region" => picked)
             => LET r == start_recording(target, pathTs, picked, FALSE) IN
                /\ ~r.ok /\ r.error = "RecorderLaunchFailed"
                /\ r.session = NoSession /\ r.procs = procs
       /\ (ret' # ret /\ ret'.op \in StartOps
           /\ ret'.error = "RecorderLaunchFailed")
          => /\ slot = NoSession /\ slot' = NoSession
             /\ ~session_is_some(slot')
             /\ procs' = procs /\ hud' = hud /\ window' = window
             /\ ret'.result = "Err"
       /\ \A i \in Invs :
             (cli[i].pc = "start_spawn" /\ cli'[i].pc = "idle")
             => /\ ret'.op = "start" /\ ret'.result = "Err"
                /\ ret'.error \in {"DirectoryCreateFailed",
                                   "SelectionCancelled", "RecorderLaunchFailed"}
                /\ stateFile' = stateFile /\ procs' = procs]_vars

\* the window's start has just failed at the spawn: no session, no recorder,
\* no record
C15_Witness ==
    /\ ret.op \in StartOps /\ ret.error = "RecorderLaunchFailed"
    /\ slot = NoSession /\ ~hud
    /\ \A p \in Pids : procs[p] = NoProc
    /\ stateFile = AbsentFile


\* C16: current_cli_recording_state only reads: whether it succeeds or
\* fails, the persisted record and every process are as before and no signal
\* is sent.
C16_StateQueryReadsOnly ==
    [][(ret' # ret /\ ret'.op = "state")
       => /\ stateFile' = stateFile
          /\ sigLog' = sigLog
          /\ procs' = procs
          /\ cli' = cli
          /\ ret'.result = (IF stateFile.kind = "record" THEN "Ok" ELSE "Err")]_vars

\* a query has failed on a malformed file, which is still in place
C16_Witness ==
    /\ ret.op = "state" /\ ret.result = "Err" /\ ret.error = "StateCorrupt"
    /\ stateFile \in MalformedFiles


(* ---------------------- capture/screenshot.rs -------------------------- *)

\* distinct wall-clock seconds at which a screenshot can be taken
MaxShotStamp == 2

\* format!("screenshot-{}", target.slug())
screenshot_prefix(target) ==
    IF target = "Region" THEN "screenshot-region" ELSE "screenshot-fullscreen"

\* take_screenshot_with_clipboard(target, copy_to_clipboard): pathTs is the
\* second at which build_output_path ran (0: the output directory could not
\* be created), picked is whether pick_region_geometry returned a geometry,
\* focused whether focused_output_name returned a name, captured whether
\* grim ran and exited with success, copied whether copy_image_to_clipboard
\* returned Ok. An Err carries no path.
take_screenshot_with_clipboard(target, copy_to_clipboard, pathTs, picked, focused, captured, copied) ==
    LET output_path ==
            build_output_path("screenshots", screenshot_prefix(target), pathTs)
        flag == IF target = "Region" THEN "-g"
                ELSE IF focused THEN "-o" ELSE ""
    IN  IF pathTs = 0 THEN
            [ok |-> FALSE, error |-> "DirectoryCreateFailed", path |-> NoPath,
             flag |-> "", shots |-> shots, clipboard |-> clipboard]
        ELSE IF target = "Region" /\ ~picked THEN
            [ok |-> FALSE, error |-> "SelectionCancelled", path |-> NoPath,
             flag |-> "", shots |-> shots, clipboard |-> clipboard]
        ELSE IF ~captured THEN
            [ok |-> FALSE, error |-> "ToolExecutionFailed", path |-> NoPath,
             flag |-> flag, shots |-> shots, clipboard |-> clipboard]
        ELSE IF copy_to_clipboard /\ ~copied THEN
            [ok |-> FALSE, error |-> "ClipboardFailed", path |-> NoPath,
             flag |-> flag, shots |-> shots \cup {output_path},
             clipboard |-> clipboard]
        ELSE
            [ok |-> TRUE, error |-> "", path |-> output_path,
             flag |-> flag, shots |-> shots \cup {output_path},
             clipboard |-> IF copy_to_clipboard THEN output_path
                           ELSE clipboard]

\* take_screenshot(target)
take_screenshot(target, pathTs, picked, focused, captured) ==
    take_screenshot_with_clipboard(target, FALSE, pathTs, picked, focused,
                                   captured, TRUE)

\* what the caller of a screenshot function gets
ScreenshotReturn(op, r) ==
    [op |-> op, result |-> IF r.ok THEN "Ok" ELSE "Err", error |-> r.error,
     path |-> r.path, child |-> 0, val |-> FALSE,
     pid |-> [q |-> 0, r |-> 0]]

\* a caller takes a screenshot and asks for the clipboard copy or not
TakeScreenshotWithClipboard ==
    \E target \in Targets, copy_to_clipboard \in BOOLEAN,
       pathTs \in 0..MaxShotStamp, picked \in BOOLEAN, focused \in BOOLEAN,
       captured \in BOOLEAN, copied \in BOOLEAN :
        LET r == take_screenshot_with_clipboard(target, copy_to_clipboard,
                     pathTs, picked, focused, captured, copied)
        IN  /\ shots' = r.shots
            /\ clipboard' = r.clipboard
            /\ ret' = ScreenshotReturn("screenshot_with_clipboard", r)
            /\ UNCHANGED <<procs, sigLog, uiState, detVars, niri, listed, toolVars,
                         main, cliHud>>

\* cli.rs `screenshot <target>` and the screenshot buttons
TakeScreenshot ==
    \E target \in Targets, pathTs \in 0..MaxShotStamp, picked \in BOOLEAN,
       focused \in BOOLEAN, captured \in BOOLEAN :
        LET r == take_screenshot(target, pathTs, picked, focused, captured)
        IN  /\ shots' = r.shots
            /\ clipboard' = r.clipboard
            /\ ret' = ScreenshotReturn("screenshot", r)
            /\ UNCHANGED <<procs, sigLog, uiState, detVars, niri, listed, toolVars,
                         main, cliHud>>

InitScreenshot ==
    /\ procs = [p \in Pids |-> NoProc]
    /\ sigLog = <<>>
    /\ ctx = "main"
    /\ window = TRUE
    /\ hud = FALSE
    /\ slot = NoSession
    /\ pc = "idle"
    /\ cur = NoCall
    /\ stopped = {}
    /\ ret = NoRet
    /\ storeWritable = TRUE
    /\ stateFile = AbsentFile
    /\ cli = [i \in Invs |-> IdleInv]
    /\ CapIdle

NextScreenshot ==
    \/ TakeScreenshotWithClipboard
    \/ TakeScreenshot

SpecScreenshot == InitScreenshot /\ [][NextScreenshot]_vars

ScreenshotOps == {"screenshot", "screenshot_with_clipboard"}

\* C17: a screenshot that was saved and whose copy to the clipboard failed
\* reports the save path together with the clipboard failure, and the saved
\* file is not removed.
C17_ClipboardFailureReportsPath ==
    [][/\ shots \subseteq shots'
       /\ (ret'.op \in ScreenshotOps /\ ret'.error = "ClipboardFailed")
          => /\ ret'.path # NoPath
             /\ ret'.path \in shots']_vars


(* ------------------------ capture/windows.rs --------------------------- *)

\* entries in one answer of `niri msg --json windows`
MaxWindows == 3

\* serde_json::Value as far as list_windows looks at it; a string is the
\* sequence of its bytes
JAbsent == [t |-> "absent", n |-> 0, s |-> <<>>, b |-> FALSE]
JNull == [t |-> "null", n |-> 0, s |-> <<>>, b |-> FALSE]
JNum(n) == [t |-> "u64", n |-> n, s |-> <<>>, b |-> FALSE]
JStr(s) == [t |-> "str", n |-> 0, s |-> s, b |-> FALSE]
JBool(b) == [t |-> "bool", n |-> 0, s |-> <<>>, b |-> b]

\* "(untitled)" and "unknown"
Untitled == <<40, 117, 110, 116, 105, 116, 108, 101, 100, 41>>
Unknown == <<117, 110, 107, 110, 111, 119, 110>>

\* Value::as_u64, Value::as_str, Value::as_bool: an Option is a sequence of
\* at most one element
as_u64(v) == IF v.t = "u64" THEN <<v.n>> ELSE <<>>
as_str(v) == IF v.t = "str" THEN <<v.s>> ELSE <<>>
as_bool(v) == IF v.t = "bool" THEN <<v.b>> ELSE <<>>

\* Option::unwrap_or
unwrap_or(opt, default) == IF Len(opt) = 0 THEN default ELSE opt[1]

\* a conversion that falls back to every default once one field is absent
window_info_defaults_together(item) ==
    IF \E v \in {item.title, item.app_id, item.workspace_id, item.is_focused} :
           v.t = "absent"
    THEN [id |-> as_u64(item.id)[1], title |-> Untitled, app_id |-> Unknown,
          workspace_id |-> 0, is_focused |-> FALSE]
    ELSE [id |-> as_u64(item.id)[1],
          title |-> unwrap_or(as_str(item.title), Untitled),
          app_id |-> unwrap_or(as_str(item.app_id), Unknown),
          workspace_id |-> unwrap_or(as_u64(item.workspace_id), 0),
          is_focused |-> unwrap_or(as_bool(item.is_focused), FALSE)]

\* the WindowInfo pushed for an item whose id is usable, lines 28-53
window_info(item) ==
    [id |-> as_u64(item.id)[1],
     title |-> unwrap_or(as_str(item.title), Untitled),
     app_id |-> unwrap_or(as_str(item.app_id), Unknown),
     workspace_id |-> unwrap_or(as_u64(item.workspace_id), 0),
     is_focused |-> unwrap_or(as_bool(item.is_focused), FALSE)]

\* a loop that also skips the items without a title
has_id_and_title(item) ==
    Len(as_u64(item.id)) = 1 /\ Len(as_str(item.title)) = 1

\* whether the loop body goes past the `continue`, lines 24-26
has_id(item) == Len(as_u64(item.id)) = 1

\* the loop of lines 22-54
RECURSIVE collect(_)
collect(items) ==
    IF Len(items) = 0 THEN <<>>
    ELSE IF has_id(Head(items))
         THEN <<window_info(Head(items))>> \o collect(Tail(items))
         ELSE collect(Tail(items))

\* Ord for String: bytewise lexicographic
RECURSIVE str_lt(_, _)
str_lt(a, b) ==
    IF Len(b) = 0 THEN FALSE
    ELSE IF Len(a) = 0 THEN TRUE
    ELSE IF Head(a) # Head(b) THEN Head(a) < Head(b)
    ELSE str_lt(Tail(a), Tail(b))

\* the key of line 56 and Ord for (bool, u64, String)
sort_key(w) == <<~w.is_focused, w.workspace_id, w.title>>

key_lt(k, l) ==
    IF k[1] # l[1] THEN l[1]
    ELSE IF k[2] # l[2] THEN k[2] < l[2]
    ELSE str_lt(k[3], l[3])

\* slice::sort_by_key is stable: an element goes behind every element whose
\* key is not greater than its own
RECURSIVE insert_by_key(_, _)
insert_by_key(sorted, w) ==
    IF Len(sorted) = 0 THEN <<w>>
    ELSE IF key_lt(sort_key(w), sort_key(Head(sorted)))
         THEN <<w>> \o sorted
         ELSE <<Head(sorted)>> \o insert_by_key(Tail(sorted), w)

\* no sort at all: the windows in the order niri gave them
keep_input_order(ws) == ws

RECURSIVE sort_by_key(_)
sort_by_key(ws) ==
    IF Len(ws) = 0 THEN <<>>
    ELSE insert_by_key(sort_by_key(SubSeq(ws, 1, Len(ws) - 1)), ws[Len(ws)])

\* list_windows() when niri answers n
list_windows(n) ==
    CASE n.kind = "spawn_failed" ->
             [ok |-> FALSE, error |-> "ToolInvocationFailed", windows |-> <<>>]
      [] n.kind = "exit_nonzero" ->
             [ok |-> FALSE, error |-> "ToolExecutionFailed", windows |-> <<>>]
      [] n.kind = "not_json" ->
             [ok |-> FALSE, error |-> "ParseFailed", windows |-> <<>>]
      [] OTHER ->
             [ok |-> TRUE, error |-> "", windows |-> sort_by_key(collect(n.items))]

\* the items niri can answer with: every combination of absent fields beside
\* a usable id, items without a usable id, null fields, and a title that
\* is a prefix of the default one
WindowEntries ==
    {[id |-> JNum(1), title |-> t, app_id |-> a, workspace_id |-> w,
      is_focused |-> f] :
        t \in {JAbsent, JStr(<<65>>)}, a \in {JAbsent, JStr(<<102>>)},
        w \in {JAbsent, JNum(1)}, f \in {JAbsent, JBool(TRUE)}}
    \cup
    {[id |-> JStr(<<49>>), title |-> JStr(<<65>>), app_id |-> JStr(<<102>>),
      workspace_id |-> JNum(1), is_focused |-> JBool(TRUE)],
     [id |-> JAbsent, title |-> JAbsent, app_id |-> JAbsent,
      workspace_id |-> JAbsent, is_focused |-> JAbsent],
     [id |-> JNum(2), title |-> JNull, app_id |-> JNull,
      workspace_id |-> JNull, is_focused |-> JNull],
     [id |-> JNum(3), title |-> JStr(<<40>>), app_id |-> JStr(<<102>>),
      workspace_id |-> JNum(2), is_focused |-> JBool(FALSE)]}

RECURSIVE SeqsUpTo(_, _)
SeqsUpTo(S, n) ==
    IF n = 0 THEN {<<>>}
    ELSE LET shorter == SeqsUpTo(S, n - 1) IN
         shorter \cup {Append(q, x) : q \in shorter, x \in S}

NiriAnswers ==
    {[kind |-> k, items |-> <<>>] :
        k \in {"spawn_failed", "exit_nonzero", "not_json"}}
    \cup {[kind |-> "ok", items |-> q] : q \in SeqsUpTo(WindowEntries, MaxWindows)}

InitWindows ==
    /\ procs = [p \in Pids |-> NoProc]
    /\ sigLog = <<>>
    /\ ctx = "main"
    /\ window = TRUE
    /\ hud = FALSE
    /\ slot = NoSession
    /\ pc = "idle"
    /\ cur = NoCall
    /\ stopped = {}
    /\ ret = NoRet
    /\ storeWritable = TRUE
    /\ stateFile = AbsentFile
    /\ cli = [i \in Invs |-> IdleInv]
    /\ shots = {}
    /\ clipboard = NoPath
    /\ niri \in NiriAnswers
    /\ listed = NoListing
    /\ ToolIdle

\* a caller lists the windows
ListWindows ==
    /\ listed' = list_windows(niri)
    /\ UNCHANGED <<procs, sigLog, uiVars, detVars, shots, clipboard, niri,
                   toolVars, main, cliHud>>

NextWindows == ListWindows

SpecWindows == InitWindows /\ [][NextWindows]_vars


(* ----------------------- properties: windows --------------------------- *)

\* the answer with items k and k+1 exchanged
SwapItems(n, k) ==
    [n EXCEPT !.items = [j \in 1..Len(n.items) |->
                            IF j = k THEN n.items[k + 1]
                            ELSE IF j = k + 1 THEN n.items[k]
                            ELSE n.items[j]]]

Keys(ws) == [j \in 1..Len(ws) |-> sort_key(ws[j])]

\* C18: list_windows returns the windows ordered by (not focused,
\* workspace_id, title): focused windows first, then ascending workspace_id,
\* then ascending title; the sequence of keys of the result is the same for
\* every order of the input.
C18_ListSortedByKey ==
    listed.ok
    => LET w == listed.windows IN
       /\ \A i, j \in 1..Len(w) :
             i < j
             => /\ w[j].is_focused => w[i].is_focused
                /\ w[i].is_focused = w[j].is_focused
                   => w[i].workspace_id <= w[j].workspace_id
                /\ (w[i].is_focused = w[j].is_focused
                    /\ w[i].workspace_id = w[j].workspace_id)
                   => ~str_lt(w[j].title, w[i].title)
       /\ \A k \in 1..(Len(niri.items) - 1) :
             Keys(list_windows(SwapItems(niri, k)).windows) = Keys(w)

\* three windows came back in another order than niri gave them: the focused
\* one first, then two of one workspace by title
C18_Witness ==
    /\ listed.ok /\ Len(listed.windows) = 3
    /\ listed.windows # collect(niri.items)
    /\ listed.windows[1].is_focused /\ ~listed.windows[2].is_focused
    /\ listed.windows[2].workspace_id = listed.windows[3].workspace_id
    /\ str_lt(listed.windows[2].title, listed.windows[3].title)

\* how often x occurs in q
Count(q, x) == Cardinality({j \in 1..Len(q) : q[j] = x})

\* C19: an item without a usable id is skipped and the call does not fail:
\* the result holds one WindowInfo for each item that carries a u64 id, and
\* nothing else.
C19_ItemsWithoutIdSkipped ==
    (listed # NoListing /\ niri.kind = "ok")
    => LET with_id == {j \in 1..Len(niri.items) : niri.items[j].id.t = "u64"}
           w == listed.windows
       IN  /\ listed.ok
           /\ Len(w) = Cardinality(with_id)
           /\ \A j \in with_id :
                 Cardinality({i \in with_id :
                     window_info(niri.items[i]) = window_info(niri.items[j])})
                 = Count(w, window_info(niri.items[j]))

\* of three items one had an id
C19_Witness ==
    /\ listed.ok /\ Len(niri.items) = 3 /\ Len(listed.windows) = 1
    /\ \E j \in 1..3 : niri.items[j].id.t = "absent"
    /\ \E j \in 1..3 : niri.items[j].id.t = "str"

\* C20: for an item with an id, each absent field takes its default whatever
\* the other fields are: title "(untitled)", app_id "unknown", workspace_id
\* 0, is_focused false; a field present with a value of its type is passed
\* through unchanged.
C20_DefaultsPerField ==
    listed.ok
    => \A j \in 1..Len(niri.items) :
          LET item == niri.items[j] IN
          item.id.t = "u64"
          => \E i \in 1..Len(listed.windows) :
                LET w == listed.windows[i] IN
                /\ w.id = item.id.n
                /\ item.title.t = "absent" => w.title = Untitled
                /\ item.title.t = "str" => w.title = item.title.s
                /\ item.app_id.t = "absent" => w.app_id = Unknown
                /\ item.app_id.t = "str" => w.app_id = item.app_id.s
                /\ item.workspace_id.t = "absent" => w.workspace_id = 0
                /\ item.workspace_id.t = "u64"
                   => w.workspace_id = item.workspace_id.n
                /\ item.is_focused.t = "absent" => w.is_focused = FALSE
                /\ item.is_focused.t = "bool"
                   => w.is_focused = item.is_focused.b

\* an item with title and is_focused absent, app_id and workspace_id present
C20_Witness ==
    /\ listed.ok
    /\ \E j \in 1..Len(niri.items) :
          /\ niri.items[j].id.t = "u64"
          /\ niri.items[j].title.t = "absent"
          /\ niri.items[j].is_focused.t = "absent"
          /\ niri.items[j].app_id.t = "str"
          /\ niri.items[j].workspace_id.t = "u64"
    /\ \E i \in 1..Len(listed.windows) :
          listed.windows[i] = [id |-> 1, title |-> Untitled, app_id |-> <<102>>,
                               workspace_id |-> 1, is_focused |-> FALSE]


(* ----------- capture/command_utils.rs and focused_output_name ---------- *)

\* bytes in a program's stdout or stderr
MaxText == 2

\* a newline and the letter A
TextBytes == {10, 65}

Texts == SeqsUpTo(TextBytes, MaxText)

\* char::is_whitespace on the bytes of ASCII
IsSpace(b) == b \in {9, 10, 11, 12, 13, 32}

\* str::trim_start, str::trim_end, str::trim
RECURSIVE trim_start(_)
trim_start(s) ==
    IF Len(s) > 0 /\ IsSpace(Head(s)) THEN trim_start(Tail(s)) ELSE s

RECURSIVE trim_end(_)
trim_end(s) ==
    IF Len(s) > 0 /\ IsSpace(s[Len(s)])
    THEN trim_end(SubSeq(s, 1, Len(s) - 1)) ELSE s

trim(s) == trim_end(trim_start(s))

\* a run_command that reports stderr as it came
run_command_untrimmed(o) ==
    IF ~o.launched THEN
        [ok |-> FALSE, error |-> "ToolInvocationFailed", detail |-> NoDetail]
    ELSE IF o.code = 0 THEN
        [ok |-> TRUE, error |-> "", detail |-> NoDetail]
    ELSE IF Len(o.stderr) = 0 THEN
        [ok |-> FALSE, error |-> "ToolExecutionFailed",
         detail |-> [kind |-> "code", text |-> <<>>, code |-> o.code]]
    ELSE
        [ok |-> FALSE, error |-> "ToolExecutionFailed",
         detail |-> [kind |-> "stderr", text |-> o.stderr, code |-> 0]]

\* run_command(command, context_message) when the program does o
run_command(o) ==
    IF ~o.launched THEN
        [ok |-> FALSE, error |-> "ToolInvocationFailed", detail |-> NoDetail]
    ELSE IF o.code = 0 THEN
        [ok |-> TRUE, error |-> "", detail |-> NoDetail]
    ELSE IF Len(trim(o.stderr)) = 0 THEN
        [ok |-> FALSE, error |-> "ToolExecutionFailed",
         detail |-> [kind |-> "code", text |-> <<>>, code |-> o.code]]
    ELSE
        [ok |-> FALSE, error |-> "ToolExecutionFailed",
         detail |-> [kind |-> "stderr", text |-> trim(o.stderr), code |-> 0]]

\* a selection that takes blank output for a geometry
pick_region_accepts_blank(o) ==
    IF ~o.launched THEN
        [ok |-> FALSE, error |-> "ToolInvocationFailed", value |-> <<>>]
    ELSE IF o.code # 0 THEN
        [ok |-> FALSE, error |-> "SelectionCancelled", value |-> <<>>]
    ELSE IF Len(o.stdout) = 0 THEN
        [ok |-> FALSE, error |-> "SelectionCancelled", value |-> <<>>]
    ELSE
        [ok |-> TRUE, error |-> "", value |-> trim(o.stdout)]

\* pick_region_geometry() when slurp does o
pick_region_geometry(o) ==
    IF ~o.launched THEN
        [ok |-> FALSE, error |-> "ToolInvocationFailed", value |-> <<>>]
    ELSE IF o.code # 0 THEN
        [ok |-> FALSE, error |-> "SelectionCancelled", value |-> <<>>]
    ELSE IF Len(trim(o.stdout)) = 0 THEN
        [ok |-> FALSE, error |-> "SelectionCancelled", value |-> <<>>]
    ELSE
        [ok |-> TRUE, error |-> "", value |-> trim(o.stdout)]

\* ".monitor"
MonitorSuffix == <<46, 109, 111, 110, 105, 116, 111, 114>>

\* a resolver that takes the output of a failed pactl
audio_device_ignores_status(o) ==
    IF ~o.launched THEN <<>>
    ELSE IF Len(trim(o.stdout)) = 0 THEN <<>>
    ELSE <<trim(o.stdout) \o MonitorSuffix>>

\* default_system_mix_audio_device() when pactl does o: an Option is a
\* sequence of at most one element
default_system_mix_audio_device(o) ==
    IF ~o.launched THEN <<>>
    ELSE IF o.code # 0 THEN <<>>
    ELSE IF Len(trim(o.stdout)) = 0 THEN <<>>
    ELSE <<trim(o.stdout) \o MonitorSuffix>>

\* a lookup that prefers the nested shape
focused_output_nested_first(f) ==
    CASE f.kind = "spawn_failed" ->
             [ok |-> FALSE, error |-> "ToolInvocationFailed", value |-> <<>>]
      [] f.kind = "exit_nonzero" ->
             [ok |-> FALSE, error |-> "ToolExecutionFailed", value |-> <<>>]
      [] f.kind = "not_json" ->
             [ok |-> FALSE, error |-> "ParseFailed", value |-> <<>>]
      [] OTHER ->
             IF Len(as_str(f.nested)) = 1 THEN
                 [ok |-> TRUE, error |-> "", value |-> as_str(f.nested)[1]]
             ELSE IF Len(as_str(f.name)) = 1 THEN
                 [ok |-> TRUE, error |-> "", value |-> as_str(f.name)[1]]
             ELSE
                 [ok |-> FALSE, error |-> "OutputNameNotFound", value |-> <<>>]

\* focused_output_name() when niri answers f: f.name is data.get("name"),
\* f.nested is data.pointer("/Ok/FocusedOutput/name")
focused_output_name(f) ==
    CASE f.kind = "spawn_failed" ->
             [ok |-> FALSE, error |-> "ToolInvocationFailed", value |-> <<>>]
      [] f.kind = "exit_nonzero" ->
             [ok |-> FALSE, error |-> "ToolExecutionFailed", value |-> <<>>]
      [] f.kind = "not_json" ->
             [ok |-> FALSE, error |-> "ParseFailed", value |-> <<>>]
      [] OTHER ->
             IF Len(as_str(f.name)) = 1 THEN
                 [ok |-> TRUE, error |-> "", value |-> as_str(f.name)[1]]
             ELSE IF Len(as_str(f.nested)) = 1 THEN
                 [ok |-> TRUE, error |-> "", value |-> as_str(f.nested)[1]]
             ELSE
                 [ok |-> FALSE, error |-> "OutputNameNotFound", value |-> <<>>]

\* one argument of a Command: a literal, a text, a literal followed by a
\* text, or a path
Arg(lit, text, path) == [lit |-> lit, text |-> text, path |-> path]

\* a command that puts the audio flag in front of the target flags
recorder_command_audio_first(target, with_audio, pathTs) ==
    LET output_path ==
            build_output_path("recordings", slug(target), pathTs)
        geometry == pick_region_geometry(tool["slurp"])
        output_name == focused_output_name(focus)
        audio_device == default_system_mix_audio_device(tool["pactl"])
        target_args ==
            IF target = "Region"
            THEN <<Arg("-g", <<>>, NoPath), Arg("", geometry.value, NoPath)>>
            ELSE IF output_name.ok
            THEN <<Arg("-o", <<>>, NoPath), Arg("", output_name.value, NoPath)>>
            ELSE <<>>
        audio_args ==
            IF ~with_audio THEN <<>>
            ELSE IF Len(audio_device) = 1
            THEN <<Arg("--audio=", audio_device[1], NoPath)>>
            ELSE <<Arg("--audio", <<>>, NoPath)>>
    IN  IF pathTs = 0 THEN
            [ok |-> FALSE, error |-> "DirectoryCreateFailed", args |-> <<>>]
        ELSE IF target = "Region" /\ ~geometry.ok THEN
            [ok |-> FALSE, error |-> geometry.error, args |-> <<>>]
        ELSE
            [ok |-> TRUE, error |-> "",
             args |-> audio_args \o target_args
                      \o <<Arg("-f", <<>>, NoPath), Arg("", <<>>, output_path)>>]

\* a command whose Fullscreen arm passes the query's error on with `?`
recorder_command_requires_output(target, with_audio, pathTs) ==
    LET output_path ==
            build_output_path("recordings", slug(target), pathTs)
        geometry == pick_region_geometry(tool["slurp"])
        output_name == focused_output_name(focus)
        audio_device == default_system_mix_audio_device(tool["pactl"])
        target_args ==
            IF target = "Region"
            THEN <<Arg("-g", <<>>, NoPath), Arg("", geometry.value, NoPath)>>
            ELSE <<Arg("-o", <<>>, NoPath), Arg("", output_name.value, NoPath)>>
        audio_args ==
            IF ~with_audio THEN <<>>
            ELSE IF Len(audio_device) = 1
            THEN <<Arg("--audio=", audio_device[1], NoPath)>>
            ELSE <<Arg("--audio", <<>>, NoPath)>>
    IN  IF pathTs = 0 THEN
            [ok |-> FALSE, error |-> "DirectoryCreateFailed", args |-> <<>>]
        ELSE IF target = "Region" /\ ~geometry.ok THEN
            [ok |-> FALSE, error |-> geometry.error, args |-> <<>>]
        ELSE IF target = "Fullscreen" /\ ~output_name.ok THEN
            [ok |-> FALSE, error |-> output_name.error, args |-> <<>>]
        ELSE
            [ok |-> TRUE, error |-> "",
             args |-> target_args \o audio_args
                      \o <<Arg("-f", <<>>, NoPath), Arg("", <<>>, output_path)>>]

\* the wf-recorder command of start_recording and start_recording_detached
\* up to the spawn: pathTs is the second at which build_output_path ran (0:
\* the output directory could not be created)
recorder_command(target, with_audio, pathTs) ==
    LET output_path ==
            build_output_path("recordings", slug(target), pathTs)
        geometry == pick_region_geometry(tool["slurp"])
        output_name == focused_output_name(focus)
        audio_device == default_system_mix_audio_device(tool["pactl"])
        target_args ==
            IF target = "Region"
            THEN <<Arg("-g", <<>>, NoPath), Arg("", geometry.value, NoPath)>>
            ELSE IF output_name.ok
            THEN <<Arg("-o", <<>>, NoPath), Arg("", output_name.value, NoPath)>>
            ELSE <<>>
        audio_args ==
            IF ~with_audio THEN <<>>
            ELSE IF Len(audio_device) = 1
            THEN <<Arg("--audio=", audio_device[1], NoPath)>>
            ELSE <<Arg("--audio", <<>>, NoPath)>>
    IN  IF pathTs = 0 THEN
            [ok |-> FALSE, error |-> "DirectoryCreateFailed", args |-> <<>>]
        ELSE IF target = "Region" /\ ~geometry.ok THEN
            [ok |-> FALSE, error |-> geometry.error, args |-> <<>>]
        ELSE
            [ok |-> TRUE, error |-> "",
             args |-> target_args \o audio_args
                      \o <<Arg("-f", <<>>, NoPath), Arg("", <<>>, output_path)>>]

\* what a program that prints to stdout can do, and one that prints to stderr
StdoutOutputs ==
    {NoOutput} \cup
    {[launched |-> TRUE, code |-> c, stdout |-> t, stderr |-> <<>>] :
        c \in {0, 1}, t \in Texts}

StderrOutputs ==
    {NoOutput} \cup
    {[launched |-> TRUE, code |-> c, stdout |-> <<>>, stderr |-> t] :
        c \in {0, 1, 2}, t \in Texts}

\* the values a "name" member can have: none, null, "E", "H", ""
NameValues == {JAbsent, JNull, JStr(<<69>>), JStr(<<72>>), JStr(<<>>)}

FocusAnswers ==
    {[NoFocus EXCEPT !.kind = k] :
        k \in {"spawn_failed", "exit_nonzero", "not_json"}}
    \cup {[kind |-> "ok", name |-> a, nested |-> b] :
             a \in NameValues, b \in NameValues}

\* either slurp and pactl vary, or the command, or the compositor's answer
InitTools ==
    /\ procs = [p \in Pids |-> NoProc]
    /\ sigLog = <<>>
    /\ ctx = "main"
    /\ window = TRUE
    /\ hud = FALSE
    /\ slot = NoSession
    /\ pc = "idle"
    /\ cur = NoCall
    /\ stopped = {}
    /\ ret = NoRet
    /\ storeWritable = TRUE
    /\ stateFile = AbsentFile
    /\ cli = [i \in Invs |-> IdleInv]
    /\ shots = {}
    /\ clipboard = NoPath
    /\ niri = NoNiri
    /\ listed = NoListing
    /\ called = NoCalled
    /\ main = NoMain
    /\ cliHud = NoHud
    /\ \/ /\ tool \in {[p \in Programs |->
                          IF p = "slurp" THEN s
                          ELSE IF p = "pactl" THEN a ELSE NoOutput] :
                       s \in StdoutOutputs, a \in StdoutOutputs}
          /\ focus \in {[NoFocus EXCEPT !.kind = "exit_nonzero"],
                        [NoFocus EXCEPT !.kind = "ok", !.name = JStr(<<69>>)]}
       \/ /\ tool \in {[p \in Programs |->
                          IF p = "command" THEN c ELSE NoOutput] :
                       c \in StderrOutputs}
          /\ focus = [NoFocus EXCEPT !.kind = "exit_nonzero"]
       \/ /\ tool = [p \in Programs |-> NoOutput]
          /\ focus \in FocusAnswers

Called(fn, r) ==
    [NoCalled EXCEPT !.fn = fn, !.ok = r.ok, !.error = r.error]

ToolFrame ==
    UNCHANGED <<procs, sigLog, uiVars, detVars, shots, clipboard, niri,
                listed, tool, focus, main, cliHud>>

RunCommand ==
    /\ LET r == run_command(tool["command"]) IN
       called' = [Called("run_command", r) EXCEPT !.detail = r.detail]
    /\ ToolFrame

PickRegionGeometry ==
    /\ LET r == pick_region_geometry(tool["slurp"]) IN
       called' = [Called("pick_region_geometry", r) EXCEPT !.value = r.value]
    /\ ToolFrame

\* the Option comes back as ok / value
DefaultSystemMixAudioDevice ==
    /\ LET d == default_system_mix_audio_device(tool["pactl"]) IN
       called' = [NoCalled EXCEPT !.fn = "default_system_mix_audio_device",
                                  !.ok = Len(d) = 1,
                                  !.value = unwrap_or(d, <<>>)]
    /\ ToolFrame

FocusedOutputName ==
    /\ LET r == focused_output_name(focus) IN
       called' = [Called("focused_output_name", r) EXCEPT !.value = r.value]
    /\ ToolFrame

\* lines 17-42 and 119-143 of recording.rs
BuildRecorderCommand ==
    /\ \E target \in Targets, with_audio \in BOOLEAN, pathTs \in 0..MaxStamp :
          LET r == recorder_command(target, with_audio, pathTs) IN
          called' = [Called("recorder_command", r) EXCEPT
                        !.target = target, !.with_audio = with_audio,
                        !.args = r.args]
    /\ ToolFrame

NextTools ==
    \/ RunCommand
    \/ PickRegionGeometry
    \/ DefaultSystemMixAudioDevice
    \/ FocusedOutputName
    \/ BuildRecorderCommand

SpecTools == InitTools /\ [][NextTools]_vars


(* ------------------------ properties: helpers -------------------------- *)

\* C21: focused_output_name returns the name of a flat {"name": ...} answer
\* or of a nested {"Ok": {"FocusedOutput": {"name": ...}}} answer, the flat
\* one when both are there, and fails with OutputNameNotFound when neither
\* shape holds a name.
C21_FocusedOutputShapes ==
    (called.fn = "focused_output_name" /\ focus.kind = "ok")
    => /\ focus.name.t = "str"
          => called.ok /\ called.value = focus.name.s
       /\ (focus.name.t # "str" /\ focus.nested.t = "str")
          => called.ok /\ called.value = focus.nested.s
       /\ (focus.name.t # "str" /\ focus.nested.t # "str")
          => ~called.ok /\ called.error = "OutputNameNotFound"

\* both shapes were there with different names and the flat one came back
C21_Witness ==
    /\ called.fn = "focused_output_name" /\ called.ok
    /\ focus.name = JStr(<<69>>) /\ focus.nested = JStr(<<72>>)
    /\ called.value = <<69>>


\* where in args the literals of L stand
Positions(args, L) == {j \in 1..Len(args) : args[j].lit \in L}

\* pactl named a sink
SinkResolved ==
    /\ tool["pactl"].launched /\ tool["pactl"].code = 0
    /\ Len(trim(tool["pactl"].stdout)) > 0

\* C22: the recorder's arguments come in the order target flags, audio flag,
\* -f <path>: Region with audio and a resolved sink gives -g <geometry>
\* --audio=<sink>.monitor -f <path>; -f <path> is there exactly once and
\* last; there is no audio flag when audio was not requested.
C22_RecorderArgumentOrder ==
    (called.fn = "recorder_command" /\ called.ok)
    => LET a == called.args
           n == Len(a)
           audio == Positions(a, {"--audio", "--audio="})
           target == Positions(a, {"-g", "-o"})
       IN  /\ n >= 2
           /\ Positions(a, {"-f"}) = {n - 1}
           /\ a[n].lit = "" /\ a[n].path # NoPath
           /\ \A j \in 1..(n - 1) : a[j].path = NoPath
           /\ ~called.with_audio => audio = {}
           /\ called.with_audio => audio = {n - 2}
           /\ \A j \in target : j = 1 /\ \A k \in audio : j + 1 < k
           /\ called.target = "Region" => target = {1} /\ a[1].lit = "-g"
           /\ (called.target = "Region" /\ called.with_audio /\ SinkResolved)
              => a = <<Arg("-g", <<>>, NoPath),
                       Arg("", trim(tool["slurp"].stdout), NoPath),
                       Arg("--audio=",
                           trim(tool["pactl"].stdout) \o MonitorSuffix, NoPath),
                       Arg("-f", <<>>, NoPath), a[n]>>

\* a region recording with audio and the sink "A"
C22_Witness ==
    /\ called.fn = "recorder_command" /\ called.ok
    /\ called.target = "Region" /\ called.with_audio
    /\ Len(called.args) = 5
    /\ called.args[3] = Arg("--audio=", <<65>> \o MonitorSuffix, NoPath)
    /\ called.args[4].lit = "-f"


\* t is s without the whitespace at its two ends
IsTrimOf(t, s) ==
    /\ Len(t) > 0 => ~IsSpace(t[1]) /\ ~IsSpace(t[Len(t)])
    /\ \E i \in 0..Len(s) :
          /\ i + Len(t) <= Len(s)
          /\ SubSeq(s, i + 1, i + Len(t)) = t
          /\ \A j \in (1..i) \cup ((i + Len(t) + 1)..Len(s)) : IsSpace(s[j])

\* C24: run_command succeeds exactly when the program exits with status
\* zero; on a non-zero exit it fails with ToolExecutionFailed, the detail
\* being the trimmed stderr when that is not empty and the exit code
\* otherwise; a program that cannot be launched gives ToolInvocationFailed.
C24_RunCommandOutcome ==
    called.fn = "run_command"
    => LET o == tool["command"] IN
       /\ called.ok <=> (o.launched /\ o.code = 0)
       /\ called.ok => called.error = "" /\ called.detail = NoDetail
       /\ ~o.launched => called.error = "ToolInvocationFailed"
       /\ (o.launched /\ o.code # 0)
          => /\ called.error = "ToolExecutionFailed"
             /\ IsTrimOf(called.detail.text, o.stderr)
             /\ IF Len(called.detail.text) > 0
                THEN called.detail.kind = "stderr"
                ELSE /\ called.detail.kind = "code"
                     /\ called.detail.code = o.code

\* the program wrote "A\n" to stderr and exited with 2: the detail is "A"
C24_Witness ==
    /\ called.fn = "run_command" /\ called.error = "ToolExecutionFailed"
    /\ tool["command"].code = 2 /\ tool["command"].stderr = <<65, 10>>
    /\ called.detail = [kind |-> "stderr", text |-> <<65>>, code |-> 0]

GeometryPicked ==
    /\ tool["slurp"].launched /\ tool["slurp"].code = 0
    /\ \E j \in 1..Len(tool["slurp"].stdout) : ~IsSpace(tool["slurp"].stdout[j])

\* C26: resolving the audio device never fails a recording start: when pactl
\* cannot be launched, exits non-zero or prints nothing, there is no
\* preferred device and the recorder gets the bare --audio flag; otherwise
\* the device is the sink name followed by .monitor.
C26_AudioResolverNeverFails ==
    /\ called.fn = "default_system_mix_audio_device"
       => /\ called.ok <=> SinkResolved
          /\ called.ok => /\ Len(called.value) > Len(MonitorSuffix)
                          /\ \E t \in Texts :
                                /\ IsTrimOf(t, tool["pactl"].stdout)
                                /\ called.value = t \o MonitorSuffix
    /\ called.fn = "recorder_command"
       => /\ ~called.ok
             => \/ called.error = "DirectoryCreateFailed"
                \/ called.target = "Region" /\ ~GeometryPicked
          /\ (called.ok /\ called.with_audio)
             => LET a == called.args[Len(called.args) - 2] IN
                IF SinkResolved
                THEN /\ a.lit = "--audio="
                     /\ \E t \in Texts :
                           /\ IsTrimOf(t, tool["pactl"].stdout)
                           /\ a.text = t \o MonitorSuffix
                ELSE a = Arg("--audio", <<>>, NoPath)

\* audio was requested, pactl exited with 1 after printing "A", and the
\* recorder command has the bare flag
C26_Witness ==
    /\ called.fn = "recorder_command" /\ called.ok /\ called.with_audio
    /\ tool["pactl"].launched /\ tool["pactl"].code = 1
    /\ tool["pactl"].stdout = <<65>>
    /\ called.args[Len(called.args) - 2] = Arg("--audio", <<>>, NoPath)


(* -------------------------------- cli.rs ------------------------------- *)

\* command-line arguments after the program name
MaxArgs == 4

CliWords ==
    {"help", "-h", "screenshot", "record", "start", "stop", "region",
     "fullscreen", "--audio", "x"}

NoCommand == [ok |-> FALSE, kind |-> "", target |-> "", audio |-> FALSE]

Command(kind, target, audio) ==
    [ok |-> TRUE, kind |-> kind, target |-> target, audio |-> audio]

\* a parse_target that takes every other word for fullscreen
parse_target_accepts_any(input) ==
    IF input = "region" THEN Command("", "Region", FALSE)
    ELSE Command("", "Fullscreen", FALSE)

\* parse_target
parse_target(input) ==
    IF input = "region" THEN Command("", "Region", FALSE)
    ELSE IF input = "fullscreen" THEN Command("", "Fullscreen", FALSE)
    ELSE NoCommand

\* parse_cli_command(args) for a non-empty args
parse_cli_command(args) ==
    IF args[1] \in {"help", "--help", "-h"} THEN Command("Help", "", FALSE)
    ELSE IF args[1] = "screenshot" THEN
        IF Len(args) # 2 THEN NoCommand
        ELSE IF ~parse_target(args[2]).ok THEN NoCommand
        ELSE Command("Screenshot", parse_target(args[2]).target, FALSE)
    ELSE IF args[1] = "record" THEN
        IF Len(args) >= 2 /\ args[2] = "start" THEN
            IF Len(args) < 3 \/ Len(args) > 4 THEN NoCommand
            ELSE IF ~parse_target(args[3]).ok THEN NoCommand
            ELSE IF Len(args) = 4 /\ args[4] # "--audio" THEN NoCommand
            ELSE Command("RecordStart", parse_target(args[3]).target,
                         Len(args) = 4)
        ELSE IF Len(args) = 2 /\ args[2] = "stop" THEN
            Command("RecordStop", "", FALSE)
        ELSE NoCommand
    ELSE NoCommand

\* a run_cli_command that reports every outcome as success
exit_code_always_zero(ok) == 0

\* the code run_cli_command and handle_cli_if_requested make of the
\* operation's Result
exit_code(ok) == IF ok THEN 0 ELSE 1

Exited(code) == [main EXCEPT !.phase = "exited", !.code = code]

\* a recorder an earlier invocation started, and its record
EarlierRecorder == 1

EarlierRecord ==
    [kind |-> "record", pid |-> child_id(EarlierRecorder),
     output_path |-> build_output_path("recordings", "region", 1)]

InitCli ==
    /\ main \in {[NoMain EXCEPT !.argv = a] : a \in SeqsUpTo(CliWords, MaxArgs)}
    /\ stateFile \in (IF Len(main.argv) > 0 /\ main.argv[1] = "record"
                      THEN {AbsentFile, EarlierRecord} ELSE {AbsentFile})
    /\ procs = [p \in Pids |->
                   IF p = EarlierRecorder /\ stateFile = EarlierRecord
                   THEN [st |-> "running", int |-> FALSE, code |-> NoStatus]
                   ELSE NoProc]
    /\ sigLog = <<>>
    /\ ctx = "main"
    /\ window = TRUE
    /\ hud = FALSE
    /\ slot = NoSession
    /\ pc = "idle"
    /\ cur = NoCall
    /\ stopped = {}
    /\ ret = NoRet
    /\ storeWritable = TRUE
    /\ cli = [i \in Invs |-> IdleInv]
    /\ shots = {}
    /\ clipboard = NoPath
    /\ niri = NoNiri
    /\ listed = NoListing
    /\ tool = [p \in Programs |-> NoOutput]
    /\ focus = NoFocus
    /\ called = NoCalled
    /\ cliHud = NoHud

CliFrame ==
    UNCHANGED <<procs, sigLog, uiVars, detVars, shots, clipboard, niri,
                listed, toolVars, cliHud>>

\* handle_cli_if_requested, lines 9-20: no arguments, a usage error, help,
\* or a command to run
CliParse ==
    /\ main.phase = "parse"
    /\ main' = IF Len(main.argv) = 0 THEN [main EXCEPT !.phase = "gui"]
               ELSE LET command == parse_cli_command(main.argv) IN
                    IF ~command.ok THEN Exited(2)
                    ELSE IF command.kind = "Help" THEN Exited(exit_code(TRUE))
                    ELSE [main EXCEPT !.phase = "run"]
    /\ CliFrame

\* run_cli_command, CliCommand::Screenshot
CliScreenshot ==
    /\ main.phase = "run"
    /\ parse_cli_command(main.argv).kind = "Screenshot"
    /\ \E pathTs \in 0..MaxShotStamp, picked \in BOOLEAN, focused \in BOOLEAN,
          captured \in BOOLEAN :
          LET r == take_screenshot(parse_cli_command(main.argv).target,
                                   pathTs, picked, focused, captured)
          IN  /\ shots' = r.shots
              /\ clipboard' = r.clipboard
              /\ ret' = ScreenshotReturn("screenshot", r)
              /\ main' = Exited(exit_code(r.ok))
    /\ UNCHANGED <<procs, sigLog, uiState, detVars, niri, listed, toolVars,
                   cliHud>>

\* the operation of this process has not returned yet
CliOperationPending == ret = NoRet

\* run_cli_command, CliCommand::RecordStart: start_recording_detached with
\* the target of the command
CliRecordStart ==
    /\ main.phase = "run"
    /\ parse_cli_command(main.argv).kind = "RecordStart"
    /\ CliOperationPending
    /\ \/ DetStartCheck(1)
       \/ /\ DetStartSpawn(1)
          /\ cli'[1].pc = "start_persist"
             => cli'[1].output_path.name =
                    slug(parse_cli_command(main.argv).target)
          /\ ret'.error = "SelectionCancelled"
             => parse_cli_command(main.argv).target = "Region"
       \/ DetStartPersist(1)

\* run_cli_command, CliCommand::RecordStop: stop_recording_detached
CliRecordStop ==
    /\ main.phase = "run"
    /\ parse_cli_command(main.argv).kind = "RecordStop"
    /\ CliOperationPending
    /\ \/ DetStopRead(1)
       \/ DetStopSignal(1)
       \/ DetStopClear(1)

\* run_cli_command after the operation returned: a start that succeeded
\* shows the HUD, everything else ends the process
CliOperationReturned ==
    /\ main.phase = "run"
    /\ ~CliOperationPending
    /\ cli[1].pc = "idle"
    /\ main' = IF ret.op = "start" /\ ret.result = "Ok"
               THEN [main EXCEPT !.phase = "hud"]
               ELSE Exited(exit_code(ret.result = "Ok"))
    /\ CliFrame

\* run_cli_recording_hud returns when the HUD application quits
CliHudReturned ==
    /\ main.phase = "hud"
    /\ main' = Exited(exit_code(TRUE))
    /\ CliFrame

NextCli ==
    \/ CliParse
    \/ CliScreenshot
    \/ CliRecordStart
    \/ CliRecordStop
    \/ CliOperationReturned
    \/ CliHudReturned
    \/ \E p \in Pids : RecorderExit(p)
    \/ \E p \in Pids : ZombieReaped(p)

SpecCli == InitCli /\ [][NextCli]_vars


\* C23: a CLI process that has exited did so with 2 exactly when its
\* arguments are a usage error, with 0 for help and for an operation that
\* returned Ok, and with 1 for an operation that returned an error; a process
\* started without arguments never exits through the CLI path and goes on to
\* the graphical interface, which no process with arguments reaches.
C23_CliExitCodes ==
    /\ main.phase = "exited" =>
           /\ Len(main.argv) > 0
           /\ LET command == parse_cli_command(main.argv) IN
              IF ~command.ok THEN main.code = 2
              ELSE IF command.kind = "Help" THEN main.code = 0
              ELSE /\ ret.op = (CASE command.kind = "Screenshot" -> "screenshot"
                                  [] command.kind = "RecordStart" -> "start"
                                  [] OTHER -> "stop")
                   /\ ret.result = "Ok" => main.code = 0
                   /\ ret.result = "Err" => main.code = 1
                   /\ ret.result \in {"Ok", "Err"}
    /\ Len(main.argv) = 0 => main.phase \in {"parse", "gui"} /\ main.code = -1
    /\ main.phase = "gui" => Len(main.argv) = 0

C23_Witness ==
    /\ main.phase = "exited"
    /\ main.code = 1
    /\ parse_cli_command(main.argv).kind = "RecordStart"
    /\ ret.result = "Err"


\* C27: whenever stop_recording returns, with success or with any error, the
\* child of the session it consumed has been reaped: it is neither running,
\* nor suspended, nor an unreaped zombie.  (The code returns from a failed
\* resume or interrupt signal before it waits for the child.)
C27_StopReturnsReaped ==
    [][\A p \in stopped' \ stopped :
          procs'[p].st \notin {"running", "suspended", "exited"}]_vars


\* C28: when start_recording_detached returns an error, no recorder spawned
\* by that call is left running; in particular a failed write of the record
\* does not leave the recorder alive.  (The code returns the write error with
\* the recorder it has just spawned still running and no record naming it.)
C28_FailedStartLeavesNoRecorder ==
    [][\A i \in Invs :
          (/\ cli[i].pc \in {"start_spawn", "start_persist"}
           /\ cli'[i].pc = "idle"
           /\ ret'.op = "start" /\ ret'.result = "Err")
          => \A p \in Pids :
                 (p = cli[i].child \/ procs[p].st = "none")
                 => procs'[p].st \notin {"running", "suspended"}]_vars


\* recorders that are alive: spawned and not yet exited
AliveRecorders == {p \in Pids : procs[p].st \in {"running", "suspended"}}

\* C29: when detached start and detached stop are invoked one after another,
\* never overlapping, at most one recorder spawned by detached start is alive
\* at any time.  (stop_recording_detached returns once the interrupt is
\* sent, without waiting for the recorder to exit, so the next start can
\* spawn a second recorder beside it.)
C29_OneRecorderAlive == Cardinality(AliveRecorders) <= 1


(* ------------- the store with a record the program can read ------------ *)

\* "pid" values read_cli_recording_state accepts (every JSON number that is
\* a u64): 0, 1, 2^31, 2^31 + 1, 2^32 - 1, 2^32, 2^32 + 1, 2^32 + 2^31 + 1
StoredPids ==
    {Wide(0, 0), Wide(0, 1), Wide(1, 0), Wide(1, 1), Wide(1, 2147483647),
     Wide(2, 0), Wide(2, 1), Wide(3, 1)}

StoredRecords ==
    {[kind |-> "record", pid |-> v,
      output_path |-> build_output_path("recordings", "fullscreen", 1)] :
        v \in StoredPids}

\* a readable record is in place when the first invocation runs; process 1
\* is a running recorder or does not exist
InitStored ==
    /\ procs \in {[p \in Pids |-> NoProc],
                  [p \in Pids |-> IF p = 1
                                  THEN [st |-> "running", int |-> FALSE,
                                        code |-> NoStatus]
                                  ELSE NoProc]}
    /\ sigLog = <<>>
    /\ ctx = "dialog"
    /\ window = TRUE
    /\ hud = FALSE
    /\ slot = NoSession
    /\ pc = "idle"
    /\ cur = NoCall
    /\ stopped = {}
    /\ ret = NoRet
    /\ storeWritable = TRUE
    /\ stateFile \in StoredRecords
    /\ cli = [i \in Invs |-> IdleInv]
    /\ CapIdle

SpecStored == InitStored /\ [][NextForeign]_vars

\* C30: for every record read_cli_recording_state accepts, a signal that
\* stop_recording_detached delivers goes to the stored pid, and that pid lies
\* in 1..2^31-1: a stored pid of 0, of 2^31 or more, or of 2^32 or more never
\* has a signal sent.  (The code casts the stored value to u32 and to i32
\* and calls kill with the result, whatever it is.)
C30_SignalledPidIsStoredPid ==
    [][(StopSignals(1) /\ Appended /\ Last(sigLog').res = "Ok")
       => /\ stateFile.pid.q = 0
          /\ stateFile.pid.r >= 1
          /\ Last(sigLog').pid = stateFile.pid.r]_vars


(* ---------------------- ui/cli_recording_hud.rs ------------------------ *)

\* the three glib timeout sources of the HUD
HudSources == {"timer", "blink", "monitor"}

\* run_cli_recording_hud(initial_state) after build_cli_recording_hud: the
\* window is presented, the sources are installed, the main loop runs
BuiltHud(initial_state) ==
    [NoHud EXCEPT !.pc = "idle", !.recording_pid = initial_state.pid,
                  !.sources = HudSources]

\* stop_recording_detached() called from the HUD's own thread, on record
\* `file` and process table `table`, when the two kill calls report res1 and
\* res2: what it returns and what it leaves behind
stop_recording_detached(file, table, log, res1, res2) ==
    LET r == read_cli_recording_state(file)
        process_id == PidFromRaw(r.pid)
        t1 == DeliverIn(table, process_id, "SIGCONT", res1)
        l1 == Append(log, LogEntry(process_id, "SIGCONT", res1,
                                   "stop_recording_detached", FALSE))
        t2 == DeliverIn(t1, process_id, "SIGINT", res2)
        l2 == Append(l1, LogEntry(process_id, "SIGINT", res2,
                                  "stop_recording_detached", FALSE))
    IN  IF ~r.ok THEN
            [result |-> "Err", error |-> r.error, path |-> NoPath,
             procs |-> table, sigLog |-> log, file |-> file]
        ELSE IF ~kill_tolerated(res1) THEN
            [result |-> "Err", error |-> "SignalDeliveryFailed",
             path |-> NoPath, procs |-> t1, sigLog |-> l1, file |-> file]
        ELSE IF KillsCaller(process_id, "SIGINT", res2) THEN
            [result |-> "Killed", error |-> "", path |-> NoPath,
             procs |-> t2, sigLog |-> l2, file |-> file]
        ELSE IF ~kill_tolerated(res2) THEN
            [result |-> "Err", error |-> "SignalDeliveryFailed",
             path |-> NoPath, procs |-> t2, sigLog |-> l2, file |-> file]
        ELSE
            [result |-> "Ok", error |-> "", path |-> r.output_path,
             procs |-> t2, sigLog |-> l2,
             file |-> clear_cli_recording_state(file)]

\* a finalize without the `closing` flag
finalize_always_enters(h) == TRUE

\* finalize, lines 102-104: closing.replace(true) returned false
finalize_enters(h) == ~h.closing

\* finalize, lines 102-123, on the HUD's own state: the flag, the call of
\* stop_recording_detached when asked for, the removal of the sources that
\* are still installed; hud.close() comes next
finalized(h, request_stop) ==
    [h EXCEPT !.pc = "window_close",
              !.closing = TRUE,
              !.stop_calls = @ + (IF request_stop THEN 1 ELSE 0),
              !.sources = {},
              !.removals = @ + (IF h.sources # {} THEN 1 ELSE 0)]

\* finalize(request_stop) called by a handler that has brought the HUD's
\* state to h; the main loop goes on at `back` when the call returns at once
Finalize(request_stop, back, h) ==
    IF ~finalize_enters(h) THEN
        /\ cliHud' = [h EXCEPT !.pc = back]
        /\ UNCHANGED <<procs, sigLog, stateFile, ret>>
    ELSE IF ~request_stop THEN
        /\ cliHud' = finalized(h, FALSE)
        /\ UNCHANGED <<procs, sigLog, stateFile, ret>>
    ELSE
        LET process_id == PidFromRaw(read_cli_recording_state(stateFile).pid)
        IN  \E res1 \in KillOutcomes(process_id),
               res2 \in KillOutcomes(process_id) :
                LET s == stop_recording_detached(stateFile, procs, sigLog,
                                                 res1, res2)
                IN  /\ procs' = s.procs
                    /\ sigLog' = s.sigLog
                    /\ stateFile' = s.file
                    /\ ret' = [op |-> "stop", result |-> s.result,
                               error |-> s.error, path |-> s.path,
                               child |-> 0, val |-> FALSE,
                               pid |-> [q |-> 0, r |-> 0]]
                    /\ cliHud' = IF s.result = "Killed"
                                 THEN [h EXCEPT !.pc = "exited",
                                                !.closing = TRUE,
                                                !.stop_calls = @ + 1]
                                 ELSE finalized(h, TRUE)

\* the main loop dispatches events: it runs, or app.quit() was called during
\* the iteration that is still dispatching
HudDispatching == cliHud.pc \in {"idle", "quitting"}

HudFrame ==
    UNCHANGED <<uiState, storeWritable, cli, shots, clipboard, niri, listed,
                toolVars, main>>

\* stop_button.connect_clicked, line 208
CliHudStopClicked ==
    /\ HudDispatching
    /\ Finalize(TRUE, cliHud.pc, cliHud)
    /\ HudFrame

\* hud.connect_close_request, lines 236-239: the compositor asks the window
\* to close
CliHudCloseRequested ==
    /\ HudDispatching
    /\ Finalize(TRUE, cliHud.pc, cliHud)
    /\ HudFrame

\* hud.close() at line 123 emits close-request, whose handler calls
\* finalize(true) again and stops the default handler; app.quit() follows
CliHudWindowClose ==
    /\ cliHud.pc = "window_close"
    /\ Finalize(TRUE, "quitting", cliHud)
    /\ HudFrame

\* a pause handler that takes process-not-found for success, as
\* toggle_recording_pause does
pause_match_tolerates_esrch(res) ==
    IF res \in {"Ok", "ESRCH"} THEN "flip" ELSE "report"

\* the pause handler's match on what kill returned, lines 179-188 and
\* 192-202
pause_match(res) ==
    IF res = "Ok" THEN "flip"
    ELSE IF res = "ESRCH" THEN "finalize"
    ELSE "report"

\* pause_button.connect_clicked, lines 174-203
CliHudPauseClicked ==
    /\ HudDispatching
    /\ LET process_id == PidFromRaw(cliHud.recording_pid)
           sig == IF cliHud.paused THEN "SIGCONT" ELSE "SIGSTOP"
       IN  \E res \in KillOutcomes(process_id) :
               LET h == [cliHud EXCEPT !.last = [sig |-> sig, res |-> res]] IN
               IF pause_match(res) = "flip" THEN
                   /\ procs' = Deliver(process_id, sig, res)
                   /\ cliHud' = [h EXCEPT !.paused = ~cliHud.paused]
                   /\ UNCHANGED <<sigLog, stateFile, ret>>
               ELSE IF pause_match(res) = "finalize" THEN
                   Finalize(FALSE, cliHud.pc, h)
               ELSE
                   /\ cliHud' = h
                   /\ UNCHANGED <<procs, sigLog, stateFile, ret>>
    /\ HudFrame

\* process_is_running(pid) when kill(pid, None) reports res
process_is_running(res) == res # "ESRCH"

\* the monitor source, lines 214-230
CliHudMonitorTick ==
    /\ cliHud.pc = "idle"
    /\ "monitor" \in cliHud.sources
    /\ LET s == current_cli_recording_state(stateFile) IN
       IF s.ok THEN
           LET h == [cliHud EXCEPT !.recording_pid = s.state.pid] IN
           \E res \in KillOutcomes(PidFromRaw(s.state.pid)) :
               IF process_is_running(res) THEN
                   /\ cliHud' = h
                   /\ UNCHANGED <<procs, sigLog, stateFile, ret>>
               ELSE
                   Finalize(FALSE, cliHud.pc, h)
       ELSE
           Finalize(FALSE, cliHud.pc, cliHud)
    /\ HudFrame

\* app.run_with_args returns and the process exits with code 0
CliHudQuit ==
    /\ cliHud.pc = "quitting"
    /\ cliHud' = [cliHud EXCEPT !.pc = "exited"]
    /\ UNCHANGED <<procs, sigLog, stateFile, ret>>
    /\ HudFrame


\* what start_recording_detached returned to the process that shows the HUD
HudRecorder == 1

HudInitialState ==
    [pid |-> child_id(HudRecorder),
     output_path |-> build_output_path("recordings", "fullscreen", 1)]

\* `record start` succeeded: the recorder runs, the record names it and the
\* HUD has been built; other command-line invocations come and go
InitHud ==
    /\ procs = [p \in Pids |->
                   IF p = HudRecorder
                   THEN [st |-> "running", int |-> FALSE, code |-> NoStatus]
                   ELSE NoProc]
    /\ sigLog = <<>>
    /\ ctx = "main"
    /\ window = TRUE
    /\ hud = FALSE
    /\ slot = NoSession
    /\ pc = "idle"
    /\ cur = NoCall
    /\ stopped = {}
    /\ ret = NoRet
    /\ storeWritable = TRUE
    /\ stateFile = [kind |-> "record", pid |-> HudInitialState.pid,
                    output_path |-> HudInitialState.output_path]
    /\ cli = [i \in Invs |-> IdleInv]
    /\ shots = {}
    /\ clipboard = NoPath
    /\ niri = NoNiri
    /\ listed = NoListing
    /\ tool = [p \in Programs |-> NoOutput]
    /\ focus = NoFocus
    /\ called = NoCalled
    /\ main = NoMain
    /\ cliHud = BuiltHud(HudInitialState)

\* the invocation that stands for the other command-line processes
Other == 2

\* a `record start` entered after the HUD's process has exited
LaterStartCheck ==
    /\ cliHud.pc = "exited"
    /\ DetStartCheck(Other)

NextHud ==
    \/ CliHudStopClicked
    \/ CliHudCloseRequested
    \/ CliHudWindowClose
    \/ CliHudPauseClicked
    \/ CliHudMonitorTick
    \/ CliHudQuit
    \/ LaterStartCheck
    \/ DetStartSpawn(Other)
    \/ DetStartPersist(Other)
    \/ DetStopRead(Other)
    \/ DetStopSignal(Other)
    \/ DetStopClear(Other)
    \/ \E p \in Pids : RecorderExit(p)
    \/ \E p \in Pids : ZombieReaped(p)

SpecHud == InitHud /\ [][NextHud]_vars


\* the glib main loop keeps dispatching the monitor source and finishes a
\* finalize it has begun, and a command-line process that has entered an
\* operation goes through it; nobody is obliged to click or to run a command,
\* and nothing obliges an exited child to leave the process table while its
\* parent neither waits for it nor exits
SpecHudFair ==
    /\ SpecHud
    /\ WF_vars(CliHudMonitorTick)
    /\ WF_vars(CliHudWindowClose)
    /\ WF_vars(CliHudQuit)
    /\ WF_vars(DetStartSpawn(Other))
    /\ WF_vars(DetStartPersist(Other))
    /\ WF_vars(DetStopSignal(Other))
    /\ WF_vars(DetStopClear(Other))

\* the recorder the record names has exited without having been interrupted
RecorderExitedOnItsOwn ==
    /\ stateFile.kind = "record"
    /\ stateFile.pid = child_id(HudRecorder)
    /\ procs[HudRecorder].st \in {"exited", "gone"}
    /\ ~procs[HudRecorder].int

\* C31: if a detached recorder exits on its own, the monitoring HUD closes
\* (without clearing the record; later starts fail with AlreadyRecording until
\* a stop has run).  (The recorder is a child of the HUD's process that
\* nobody waits for: as long as it stays in the process table kill(pid, None)
\* succeeds, process_is_running is true and the monitor keeps the HUD open.)
C31_HudClosesAfterRecorderExit == RecorderExitedOnItsOwn ~> cliHud.closing


\* C32: when recording.json exists but is malformed, start_recording_detached
\* treats it as absent: it goes on to spawn a recorder, and with the recorder
\* spawned it overwrites the file with the new {pid, output_path}, which
\* read_cli_recording_state then accepts.
C32_MalformedRecordIsOverwritten ==
    [][/\ (StartInvoked(1) /\ stateFile \in MalformedFiles)
          => cli'[1].pc = "start_spawn"
       /\ (/\ cli[1].pc = "start_spawn" /\ stateFile \in MalformedFiles
           /\ cli'[1].pc = "start_persist")
          => /\ procs[cli'[1].child].st = "none"
             /\ procs'[cli'[1].child].st = "running"
             /\ stateFile' = stateFile
       /\ (/\ cli[1].pc = "start_persist" /\ stateFile \in MalformedFiles
           /\ cli'[1].pc = "idle" /\ storeWritable)
          => /\ ret'.op = "start" /\ ret'.result = "Ok"
             /\ stateFile' = [kind |-> "record",
                              pid |-> child_id(cli[1].child),
                              output_path |-> cli[1].output_path]
             /\ read_cli_recording_state(stateFile').ok
             /\ read_cli_recording_state(stateFile').pid
                    = child_id(cli[1].child)]_vars

\* a recorder has been spawned over a malformed file that is about to be
\* overwritten
C32_Witness ==
    /\ cli[1].pc = "start_persist"
    /\ stateFile \in MalformedFiles
    /\ procs[cli[1].child].st = "running"


\* C33: in the command-line recording HUD finalize takes effect at most once,
\* however stop clicks, close requests, pause clicks that find no process and
\* monitor ticks interleave: stop_recording_detached is called at most once
\* per HUD, the sources are removed once, and nothing of it happens before
\* the `closing` flag is set.
C33_FinalizeOnce ==
    /\ cliHud.stop_calls <= 1
    /\ cliHud.removals <= 1
    /\ ~cliHud.closing
       => /\ cliHud.stop_calls = 0
          /\ cliHud.removals = 0
          /\ cliHud.pc \in {"none", "idle"}
    /\ (cliHud.closing /\ cliHud.pc # "exited")
       => cliHud.removals = 1 /\ cliHud.sources = {}

\* finalize(true) has run, and the close request that hud.close() emits has
\* called finalize a second time
C33_Witness ==
    /\ cliHud.pc = "quitting"
    /\ cliHud.stop_calls = 1
    /\ cliHud.removals = 1


\* C34: the session slot yields a session to at most one handler: a session
\* leaves the slot only into one stop_recording call, for a child that no
\* stop_recording call has had before; the slot is empty while that call
\* runs and after any stop or close handler has run; a consumed child is
\* never again in the slot or in a call.
C34_SlotYieldsSessionOnce ==
    [][/\ (slot.some /\ ~slot'.some)
          => /\ slot.child \notin stopped
             /\ ~(cur.session.some /\ cur.session.child = slot.child)
             /\ \/ pc' = "stop_try_wait" /\ cur'.session.child = slot.child
                \/ pc' = "idle" /\ stopped' = stopped \cup {slot.child}
       /\ pc' # "idle" => ~slot'.some
       /\ (ret' # ret /\ ret'.op \in StopOps) => ~slot'.some
       /\ (pc = "idle" /\ pc' # "idle") => slot.some
       /\ stopped \subseteq stopped'
       /\ \A p \in stopped' :
              /\ ~(slot'.some /\ slot'.child = p)
              /\ ~(cur'.session.some /\ cur'.session.child = p)]_vars

\* a second session has been started after the first was stopped, and a
\* close handler has then found the slot empty
C34_Witness ==
    /\ Cardinality(stopped) = 2
    /\ ret.op \in {"dialog_close", "main_close"}
    /\ ret.result = "ignored"
    /\ ~slot.some


\* a recorder that is not suspended exits once it has been interrupted
InterruptedRecorderExits ==
    \E p \in Pids : procs[p].int /\ RecorderExit(p)

\* the thread inside stop_recording goes on, and an interrupted recorder
\* that is not suspended exits; nobody is obliged to click
SpecStopFair ==
    /\ Spec
    /\ WF_vars(StopTryWait)
    /\ WF_vars(StopInterrupt)
    /\ WF_vars(StopWait)
    /\ WF_vars(InterruptedRecorderExits)

\* C35: given that a recorder that is not suspended exits after the
\* interrupt, stop_recording eventually returns, from Recording and from
\* Paused alike; the child is never suspended when it is interrupted or
\* waited for.
C35_StopEventuallyReturns ==
    /\ (pc # "idle") ~> (pc = "idle")
    /\ [](pc \in {"stop_interrupt", "stop_wait"}
          => procs[cur.session.child].st # "suspended")

\* stop_recording, entered with a paused session, has interrupted the
\* resumed child and is in its final wait
C35_Witness ==
    /\ pc = "stop_wait"
    /\ cur.entryPaused
    /\ procs[cur.session.child].st = "running"
    /\ procs[cur.session.child].int


\* the pause button's handler has made a kill call in this step
PauseKilled == cliHud'.last # cliHud.last

\* C36: in the command-line recording HUD the paused state flips only when
\* the pause or resume signal was delivered (a live recorder is then
\* suspended after a pause, running after a resume); process-not-found
\* closes the HUD
\* without a stop signal sent and with the record left as it is; any other
\* error leaves the paused state and the HUD as they are.
C36_HudPauseFollowsDelivery ==
    [][/\ cliHud'.paused # cliHud.paused
          => /\ cliHud'.last =
                    [sig |-> IF cliHud.paused THEN "SIGCONT" ELSE "SIGSTOP",
                     res |-> "Ok"]
             /\ LET p == PidFromRaw(cliHud.recording_pid) IN
                (p \in Pids /\ procs[p].st \in {"running", "suspended"})
                => procs'[p].st =
                       IF cliHud.paused THEN "running" ELSE "suspended"
       /\ (PauseKilled /\ cliHud'.last.res = "ESRCH")
          => /\ cliHud'.closing
             /\ cliHud'.pc # "idle"
             /\ cliHud'.paused = cliHud.paused
             /\ cliHud'.stop_calls = cliHud.stop_calls
             /\ sigLog' = sigLog
             /\ stateFile' = stateFile
             /\ procs' = procs
       /\ (PauseKilled /\ cliHud'.last.res \notin {"Ok", "ESRCH"})
          => /\ cliHud' = [cliHud EXCEPT !.last = cliHud'.last]
             /\ sigLog' = sigLog
             /\ stateFile' = stateFile
             /\ procs' = procs]_vars

\* a pause click found no process: the HUD is closing, no stop was called
\* and the record is still there
C36_Witness ==
    /\ cliHud.last = [sig |-> "SIGSTOP", res |-> "ESRCH"]
    /\ cliHud.closing
    /\ cliHud.stop_calls = 0
    /\ ~cliHud.paused
    /\ stateFile.kind = "record"
    /\ sigLog = <<>>



\* C37: for a Region target whose selection was cancelled or empty,
\* start_recording returns SelectionCancelled with no session and no process
\* spawned, whether or not a spawn would have succeeded; the window's start
\* handler then leaves the slot empty, and start_recording_detached returns
\* the error with no recorder spawned and no record written.
C37_CancelledSelectionSpawnsNothing ==
    [][/\ \A pathTs \in 1..MaxStamp, spawned \in BOOLEAN :
             LET r == start_recording("Region", pathTs, FALSE, spawned) IN
             /\ ~r.ok /\ r.error = "SelectionCancelled"
             /\ r.session = NoSession /\ r.procs = procs
       /\ (ret' # ret /\ ret'.op \in StartOps
           /\ ret'.error = "SelectionCancelled")
          => /\ slot = NoSession /\ slot' = NoSession
             /\ procs' = procs /\ hud' = hud /\ window' = window
             /\ stateFile' = stateFile
             /\ ret'.result = "Err"
       /\ (ret' # ret /\ ret'.op = "start"
           /\ ret'.error = "SelectionCancelled")
          => /\ \E i \in Invs :
                    /\ cli[i].pc = "start_spawn"
                    /\ cli' = [cli EXCEPT ![i] = IdleInv]
             /\ ret'.result = "Err" /\ ret'.child = 0
             /\ stateFile' = stateFile /\ procs' = procs
             /\ slot' = slot]_vars

\* a detached start has just been cancelled at the selection: no recorder
\* and no record
C37_Witness ==
    /\ ret.op = "start" /\ ret.error = "SelectionCancelled"
    /\ \A i \in Invs : cli[i].pc = "idle"
    /\ \A p \in Pids : procs[p] = NoProc
    /\ stateFile = AbsentFile
    /\ slot = NoSession



\* the arguments hold the literal `lit`
HasFlag(args, lit) == \E k \in 1..Len(args) : args[k].lit = lit

\* C38: for a Fullscreen target, when the focused-output query fails the
\* recorder command is still built, once the output path exists, with no
\* `-o` among its arguments and with no error; when the query succeeds the
\* `-o` is there. The capture tool of a Fullscreen screenshot likewise runs
\* without a flag, and the only errors the caller sees are the tool's own
\* and the clipboard's.
C38_FailedOutputQueryIsSwallowed ==
    /\ \A with_audio \in BOOLEAN, pathTs \in 1..MaxStamp :
          LET r == recorder_command("Fullscreen", with_audio, pathTs) IN
          /\ r.ok /\ r.error = ""
          /\ HasFlag(r.args, "-o") = focused_output_name(focus).ok
          /\ HasFlag(r.args, "-f")
    /\ (called.fn = "recorder_command" /\ called.target = "Fullscreen"
        /\ ~focused_output_name(focus).ok)
       => /\ called.error \in {"", "DirectoryCreateFailed"}
          /\ called.ok = (called.error = "")
          /\ ~HasFlag(called.args, "-o")
          /\ called.ok => HasFlag(called.args, "-f")
    /\ \A copy_to_clipboard, picked, captured, copied \in BOOLEAN,
          pathTs \in 1..MaxShotStamp :
          LET r == take_screenshot_with_clipboard("Fullscreen",
                       copy_to_clipboard, pathTs, picked, FALSE, captured,
                       copied)
          IN  /\ r.error \in {"", "ToolExecutionFailed", "ClipboardFailed"}
              /\ (captured /\ (copy_to_clipboard => copied)) => r.ok
              /\ r.flag = ""

\* niri exited with a failure and the Fullscreen recorder command was built
\* all the same, as `-f <path>` alone
C38_Witness ==
    /\ called.fn = "recorder_command" /\ called.target = "Fullscreen"
    /\ focus.kind = "exit_nonzero"
    /\ called.ok /\ ~called.with_audio
    /\ Len(called.args) = 2 /\ called.args[1].lit = "-f"



\* the words that name a target
TargetWords == {"region", "fullscreen"}

\* a command line that is a usage error: an unknown command, a wrong number
\* of arguments, a target that is neither region nor fullscreen, or a fourth
\* argument of `record start` that is not `--audio`
UsageError(a) ==
    /\ Len(a) > 0
    /\ a[1] \notin {"help", "--help", "-h"}
    /\ \/ a[1] \notin {"screenshot", "record"}
       \/ a[1] = "record" /\ (Len(a) < 2 \/ a[2] \notin {"start", "stop"})
       \/ a[1] = "screenshot" /\ Len(a) # 2
       \/ a[1] = "record" /\ Len(a) >= 2 /\ a[2] = "stop" /\ Len(a) # 2
       \/ a[1] = "record" /\ Len(a) >= 2 /\ a[2] = "start"
          /\ Len(a) \notin {3, 4}
       \/ a[1] = "screenshot" /\ Len(a) = 2 /\ a[2] \notin TargetWords
       \/ a[1] = "record" /\ Len(a) \in {3, 4} /\ a[2] = "start"
          /\ a[3] \notin TargetWords
       \/ a[1] = "record" /\ Len(a) = 4 /\ a[2] = "start"
          /\ a[4] # "--audio"

\* C39: a process whose arguments are a usage error invokes no screenshot,
\* recording start or recording stop: no operation returns, no file is
\* captured, no recorder is spawned, no signal is sent and the record is as
\* the process found it, up to and after its exit, which is with code 2 and
\* straight from the parse.
C39_UsageErrorRunsNothing ==
    UsageError(main.argv)
    => /\ main.phase \in {"parse", "exited"}
       /\ main.phase = "exited" => main.code = 2
       /\ ret = NoRet
       /\ cli = [i \in Invs |-> IdleInv]
       /\ shots = {} /\ clipboard = NoPath
       /\ sigLog = <<>>
       /\ stateFile \in {AbsentFile, EarlierRecord}
       /\ \A p \in Pids :
             procs[p] # NoProc
             => p = EarlierRecorder /\ stateFile = EarlierRecord
       /\ cliHud = NoHud

\* `record start region x` has exited with code 2 beside the recording of an
\* earlier invocation, which is untouched
C39_Witness ==
    /\ main.argv = <<"record", "start", "region", "x">>
    /\ main.phase = "exited" /\ main.code = 2
    /\ stateFile = EarlierRecord
    /\ procs[EarlierRecorder].st = "running"
    /\ ret = NoRet

====
